---- MODULE Spec2Model ----
(***************************************************************************)
(* Model of the asynchronous MySQL connection interface                    *)
(* (mysql/connector/aio/abstracts.py): the unread-result gate shared by    *)
(* the cursors of one connection, the connection life cycle, reconnect,    *)
(* and the validation of the connection options at construction.           *)
(***************************************************************************)
EXTENDS Integers, Sequences, FiniteSets, TLC

(***************************************************************************)
(* Bounds of the model.                                                    *)
(***************************************************************************)
MaxCursors == 2
MaxRows == 2
MaxAttempts == 3
MaxDelay == 1
MaxTlsLen == 2
MaxConnections == 3

Cursors == 1..MaxCursors

\* Python values handed to a property setter: two booleans and two values
\* that are not of type bool.
PyBools == {"True", "False"}
PyValues == PyBools \cup {"None", "1"}

\* Messages of the errors a failing connect attempt raises.
ErrorMessages == {"e1", "e2"}
\* Exception classes a connect attempt raises that reconnect catches, and
\* the classes a connect attempt raises at all.
CaughtClasses == {"Error", "IOError"}
RaisedClasses == CaughtClasses \cup {"CancelledError"}

\* The steps of connect, in order.
ConnectSteps == <<"open", "greeting", "tls", "auth", "post">>

VARIABLES
    cnx,     \* the connection object and the observation of its last call
    rc,      \* the frame of a running reconnect call
    ctor,    \* a construction: the options given and its outcome
    attrs,   \* the connection-attribute maps of the connections constructed
    info,    \* a ServerInfo construction: the version string and its outcome
    auth     \* an authentication exchange: credentials, messages and outcome

vars == <<cnx, rc, ctor, attrs, info, auth>>

(***************************************************************************)
(* The connection object.                                                  *)
(***************************************************************************)
NoPending == [c \in Cursors |-> FALSE]

\* The call observation kept with the connection: the operation, the
\* exception it raised ("" when it returned), what it did in order, and the
\* flags it found.  cleared records that a caller assigned False to
\* unread_result while a cursor still held an unread result set.
Begin(c, name) ==
    [c EXCEPT !.op = name, !.exc = "", !.msg = "", !.log = <<>>,
              !.pre_unread = c.unread_result,
              !.pre_consume = c.consume_results,
              !.pre_state = c.state,
              !.post_handle = c.unread_result]

Raise(c, class, message) == [c EXCEPT !.exc = class, !.msg = message]

\* unread_result setter
unread_result_set(c, value) ==
    IF value \notin PyBools
    THEN Raise(c, "ValueError", "Expected a boolean type")
    ELSE [c EXCEPT !.unread_result = (value = "True")]

\* can_consume_results setter
can_consume_results_set(c, value) ==
    IF value \notin PyBools
    THEN Raise(c, "AssertionError", "")
    ELSE [c EXCEPT !.consume_results = (value = "True")]

\* get_rows: reads every row left of the pending result set, up to and
\* with its end-of-rows packet; the result is then no longer unread.
get_rows(c) ==
    [c EXCEPT !.log = Append(@, "get_rows"),
              !.rows = 0,
              !.unread_result = FALSE,
              !.pending = NoPending]

consume_results_skip(c) == c

consume_results(c) ==
    IF c.unread_result THEN get_rows(c) ELSE c

handle_unread_result_always(c) == consume_results(c)

handle_unread_result_silent(c) ==
    IF c.consume_results THEN consume_results(c) ELSE c

handle_unread_result(c) ==
    IF c.consume_results
    THEN consume_results(c)
    ELSE IF c.unread_result
         THEN Raise(c, "InternalError", "Unread result found")
         ELSE c


(***************************************************************************)
(* Commands and cursors.  A result set on the wire has `rows` rows left in *)
(* front of its end-of-rows packet; pending[k] says that cursor k holds a  *)
(* result set it has not read to the end.                                  *)
(***************************************************************************)

\* cmd_query: the unread-result gate, then the command is sent and the
\* first packet of its result is read.
cmd_query(c, has_rows, n) ==
    IF c.state # "Ready"
    THEN Raise(c, "OperationalError", "MySQL Connection not available")
    ELSE LET h == handle_unread_result(c)
             g == [h EXCEPT !.post_handle = h.unread_result]
         IN  IF g.exc # ""
             THEN g
             ELSE [g EXCEPT !.log = Append(@, "send"),
                            !.rows = IF has_rows THEN n ELSE 0,
                            !.unread_result = has_rows]

\* cursor.execute: a buffered cursor reads its result to the end at once.
cursor_execute(c, k, has_rows, n, buffered) ==
    LET r == cmd_query(c, has_rows, n)
    IN  IF r.exc # "" \/ ~has_rows
        THEN r
        ELSE IF buffered
             THEN get_rows(r)
             ELSE [r EXCEPT !.pending[k] = TRUE]

\* cursor.fetchone: one row, or the end-of-rows packet that ends the result.
cursor_fetchone(c, k) ==
    IF ~c.pending[k]
    THEN Raise(c, "InterfaceError", "No result set to fetch from")
    ELSE IF c.rows > 0
         THEN [c EXCEPT !.rows = @ - 1, !.log = Append(@, "row")]
         ELSE [c EXCEPT !.unread_result = FALSE,
                        !.pending[k] = FALSE,
                        !.log = Append(@, "eof")]

(***************************************************************************)
(* Connection life cycle.  step is the position of a running connect in    *)
(* ConnectSteps (0: no connect is running).                                *)
(***************************************************************************)
connect_call(c) ==
    [Begin(c, "connect") EXCEPT !.step = 1]

connect_fail_keep(c, class, message) ==
    [Raise(c, class, message) EXCEPT !.step = 0]

\* A failing step of connect: the transport is released, the connection is
\* Closed and the error is raised to the caller of connect.
connect_fail(c, class, message) ==
    [Raise(c, class, message) EXCEPT !.state = "Closed",
                                     !.socket = "none",
                                     !.ssl_active = FALSE,
                                     !.step = 0]

\* _post_connection runs as the last step of connect; the connection is
\* Ready when it returns.
post_connection(c) ==
    [c EXCEPT !.state = "Ready", !.step = 0]

connect_step(c, ok, class, message) ==
    LET name == ConnectSteps[c.step]
        b == [Begin(c, "connect") EXCEPT !.log = <<name>>]
    IN  IF ~ok
        THEN connect_fail(b, class, message)
        ELSE CASE name = "open" ->
                    [b EXCEPT !.socket = "open", !.state = "Handshaking",
                              !.step = 2]
               [] name = "greeting" ->
                    IF b.ssl_disabled
                    THEN [b EXCEPT !.state = "Authenticating", !.step = 4]
                    ELSE [b EXCEPT !.step = 3]
               [] name = "tls" ->
                    [b EXCEPT !.ssl_active = TRUE,
                              !.state = "Authenticating", !.step = 4]
               [] name = "auth" ->
                    [b EXCEPT !.step = 5]
               [] name = "post" ->
                    post_connection(b)

close_strict(c, quit_ok) ==
    LET b == Begin(c, "close")
    IN  IF b.socket = "none"
        THEN [b EXCEPT !.state = "Closed", !.step = 0]
        ELSE IF ~quit_ok
             THEN Raise([b EXCEPT !.log = <<"quit_failed">>],
                        "OperationalError", "QUIT failed")
             ELSE [b EXCEPT !.log = <<"quit", "close_socket">>,
                            !.socket = "none",
                            !.ssl_active = FALSE,
                            !.state = "Closed",
                            !.step = 0]

\* close / disconnect: a best-effort QUIT, whose failure is suppressed, and
\* the release of the socket.
close(c, quit_ok) ==
    LET b == Begin(c, "close")
    IN  IF b.socket = "none"
        THEN [b EXCEPT !.state = "Closed", !.step = 0]
        ELSE [b EXCEPT !.log = <<IF quit_ok THEN "quit" ELSE "quit_failed",
                                 "close_socket">>,
                       !.socket = "none",
                       !.ssl_active = FALSE,
                       !.state = "Closed",
                       !.step = 0]

\* is_connected: a liveness probe that answers and never raises.
is_connected(c, alive) == c.socket = "open" /\ c.state = "Ready" /\ alive

\* The cursors that hold a result set not read to its end.
PendingCursors(c) == {k \in Cursors : c.pending[k]}
HasPending(c) == PendingCursors(c) # {}

\* The fields of the connection object (without the call observation).
Fields(c) ==
    <<c.state, c.socket, c.ssl_active, c.ssl_disabled, c.step,
      c.consume_results, c.unread_result, c.rows, c.pending>>

(***************************************************************************)
(* Initial states.                                                         *)
(***************************************************************************)
NewConnection(consume, ssl_off) ==
    [state |-> "Disconnected", socket |-> "none", ssl_active |-> FALSE,
     ssl_disabled |-> ssl_off, step |-> 0,
     consume_results |-> consume, unread_result |-> FALSE,
     rows |-> 0, pending |-> NoPending,
     op |-> "init", exc |-> "", msg |-> "", log |-> <<>>,
     pre_unread |-> FALSE, pre_consume |-> consume,
     pre_state |-> "Disconnected", post_handle |-> FALSE,
     cleared |-> FALSE]

RcIdle ==
    [pc |-> "idle", attempts |-> 0, delay |-> 0, counter |-> 0,
     log |-> <<>>, tries |-> <<>>, exc |-> "", msg |-> <<>>, cause |-> "",
     err |-> [class |-> "", msg |-> ""], live |-> FALSE]

\* A Python value given for an option: a list or a set of strings (items,
\* for a set in the order it is iterated), a string (chars, a sequence of
\* pieces of text), an integer (num) or None.
PyList(items) == [kind |-> "list", items |-> items, chars |-> <<>>, num |-> 0]
PySet(items) == [kind |-> "set", items |-> items, chars |-> <<>>, num |-> 0]
PyStr(chars) == [kind |-> "str", items |-> <<>>, chars |-> chars, num |-> 0]
PyInt(n) == [kind |-> "int", items |-> <<>>, chars |-> <<>>, num |-> n]
PyNone == [kind |-> "None", items |-> <<>>, chars |-> <<>>, num |-> 0]
\* A dict (items, its entries [name, value] in the order they are iterated)
\* and a function of num parameters.
PyDict(items) == [kind |-> "dict", items |-> items, chars |-> <<>>, num |-> 0]
PyFunction(n) == [kind |-> "function", items |-> <<>>, chars |-> <<>>, num |-> n]
\* True and False
PyTrue == [kind |-> "bool", items |-> <<>>, chars |-> <<>>, num |-> 1]
PyFalse == [kind |-> "bool", items |-> <<>>, chars |-> <<>>, num |-> 0]

\* bool(value)
Truthy(v) ==
    CASE v.kind \in {"list", "set", "dict"} -> v.items # <<>>
      [] v.kind = "str" -> v.chars # <<>>
      [] v.kind \in {"int", "bool"} -> v.num # 0
      [] v.kind = "function" -> TRUE
      [] OTHER -> FALSE

NoCtor ==
    [done |-> FALSE, exc |-> "", msg |-> "",
     ssl_ca |-> "None", ssl_cert |-> "None", ssl_key |-> "None",
     tls_versions |-> PyList(<<>>), given |-> PyList(<<>>),
     tls13 |-> TRUE, validated |-> FALSE,
     tls_ciphersuites |-> PyList(<<>>), cs_given |-> PyList(<<>>),
     cs_validated |-> FALSE,
     user |-> PyNone, compress |-> FALSE, allow_local_infile |-> FALSE,
     allow_local_infile_in_path |-> PyNone, client_flags |-> 0,
     auth_plugin |-> "None", unix_socket |-> "None", ssl_disabled |-> FALSE,
     port |-> PyInt(3306), os_name |-> "posix",
     connection_attrs |-> PyDict(<<>>), default_attrs |-> FALSE,
     kerberos_auth_mode |-> PyNone, auth_plugin_class |-> "None",
     krb_service_principal |-> PyNone,
     fido_callback |-> PyNone, webauthn_callback |-> PyNone,
     warned |-> FALSE,
     get_warnings |-> PyFalse, raise_on_warnings |-> PyFalse,
     call |-> [op |-> "__init__", arg |-> PyNone, exc |-> ""]]
\* The dict objects that hold connection attributes, by identity: object 1
\* is the default value of the conn_attrs parameter of __init__, made once
\* when the function is defined.  ref[i] is the object that connection i
\* holds in _connection_attrs, by_default[i] says that connection i was
\* constructed without a conn_attrs argument.
EmptyDict == [n \in {} |-> ""]
NoAttrs == [heap |-> <<EmptyDict>>, ref |-> <<>>, by_default |-> <<>>]

\* No ServerInfo has been constructed and no authentication has been started.
NoInfo == [done |-> FALSE, version |-> <<>>, exc |-> "", msg |-> "",
           version_tuple |-> <<>>]
NoAuth == [pc |-> "idle"]

Init ==
    /\ \E consume \in BOOLEAN, ssl_off \in BOOLEAN :
          cnx = NewConnection(consume, ssl_off)
    /\ rc = RcIdle
    /\ ctor = NoCtor
    /\ attrs = NoAttrs
    /\ info = NoInfo
    /\ auth = NoAuth

(***************************************************************************)
(* Actions of the connection and of its cursors.                           *)
(***************************************************************************)
SetUnreadResult ==
    /\ cnx.step = 0
    /\ \E v \in PyValues :
          cnx' = [unread_result_set(Begin(cnx, "unread_result"), v)
                    EXCEPT !.cleared = @ \/ (v = "False" /\ HasPending(cnx))]
    /\ UNCHANGED <<rc, ctor, attrs, info, auth>>

SetCanConsumeResults ==
    /\ cnx.step = 0
    /\ \E v \in PyValues :
          cnx' = can_consume_results_set(Begin(cnx, "can_consume_results"), v)
    /\ UNCHANGED <<rc, ctor, attrs, info, auth>>

HandleUnreadResult ==
    /\ cnx.step = 0
    /\ LET h == handle_unread_result(Begin(cnx, "handle_unread_result"))
       IN  cnx' = [h EXCEPT !.post_handle = h.unread_result]
    /\ UNCHANGED <<rc, ctor, attrs, info, auth>>

Execute ==
    /\ cnx.step = 0
    /\ \E k \in Cursors, has_rows \in BOOLEAN, n \in 0..MaxRows,
          buffered \in BOOLEAN :
          /\ (~has_rows => n = 0 /\ ~buffered)
          /\ cnx' = cursor_execute(Begin(cnx, "execute"), k, has_rows, n,
                                   buffered)
    /\ UNCHANGED <<rc, ctor, attrs, info, auth>>

Fetch ==
    /\ cnx.step = 0
    /\ \E k \in Cursors : cnx' = cursor_fetchone(Begin(cnx, "fetchone"), k)
    /\ UNCHANGED <<rc, ctor, attrs, info, auth>>

Connect ==
    /\ cnx.step = 0
    /\ cnx.state \in {"Disconnected", "Closed"}
    /\ cnx' = connect_call(cnx)
    /\ UNCHANGED <<rc, ctor, attrs, info, auth>>

ConnectStep ==
    /\ cnx.step > 0
    /\ \E ok \in BOOLEAN, class \in RaisedClasses, m \in ErrorMessages :
          /\ (ok => class = "Error" /\ m = "e1")
          /\ cnx' = connect_step(cnx, ok, class, m)
    /\ UNCHANGED <<rc, ctor, attrs, info, auth>>

Close ==
    /\ \E quit_ok \in BOOLEAN : cnx' = close(cnx, quit_ok)
    /\ UNCHANGED <<rc, ctor, attrs, info, auth>>

Next ==
    \/ SetUnreadResult
    \/ SetCanConsumeResults
    \/ HandleUnreadResult
    \/ Execute
    \/ Fetch
    \/ Connect
    \/ ConnectStep
    \/ Close

Spec == Init /\ [][Next]_vars


(***************************************************************************)
(* reconnect(attempts, delay).  The frame rc holds the position in the     *)
(* loop, the counter, and what the call has done so far: log is the order  *)
(* of its awaits, tries the outcome of each attempt.                       *)
(***************************************************************************)
Try(out, class, message) == [out |-> out, class |-> class, msg |-> message]

ReconnectMessage(attempts, message) ==
    <<"Can not reconnect to MySQL after", attempts, "attempt(s):", message>>

\* while counter != attempts: counter = counter + 1
reconnect_loop(r) ==
    IF r.counter # r.attempts
    THEN [r EXCEPT !.counter = @ + 1, !.pc = "disconnect"]
    ELSE [r EXCEPT !.pc = "returned"]

reconnect_probe_nobreak(r, live) ==
    [r EXCEPT !.log = Append(@, "is_connected"),
              !.tries = Append(@, Try(IF live THEN "live" ELSE "dead", "", "")),
              !.live = live,
              !.pc = "delay"]

\* if await self.is_connected(): break
reconnect_probe(r, live) ==
    [r EXCEPT !.log = Append(@, "is_connected"),
              !.tries = Append(@, Try(IF live THEN "live" ELSE "dead", "", "")),
              !.live = live,
              !.pc = IF live THEN "returned" ELSE "delay"]

reconnect_except_first(r) ==
    IF r.err.class \notin CaughtClasses
    THEN [r EXCEPT !.pc = "raised", !.exc = r.err.class,
                   !.msg = <<r.err.msg>>, !.cause = ""]
    ELSE [r EXCEPT !.pc = "raised", !.exc = "InterfaceError",
                   !.msg = ReconnectMessage(r.attempts, r.err.msg),
                   !.cause = r.err.msg]

\* except (Error, IOError) as err: if counter == attempts: raise ... from err
reconnect_except(r) ==
    IF r.err.class \notin CaughtClasses
    THEN [r EXCEPT !.pc = "raised", !.exc = r.err.class,
                   !.msg = <<r.err.msg>>, !.cause = ""]
    ELSE IF r.counter = r.attempts
         THEN [r EXCEPT !.pc = "raised", !.exc = "InterfaceError",
                        !.msg = ReconnectMessage(r.attempts, r.err.msg),
                        !.cause = r.err.msg]
         ELSE [r EXCEPT !.pc = "delay"]

\* if delay > 0: await asyncio.sleep(delay)
reconnect_delay(r) ==
    [r EXCEPT !.pc = "loop",
              !.log = IF r.delay > 0 THEN Append(@, "sleep") ELSE @]

\* attempts is any int: below 0 the counter never meets it.
RcCall ==
    /\ rc.pc = "idle"
    /\ \E a \in (0 - 1)..MaxAttempts, d \in 0..MaxDelay :
          rc' = [RcIdle EXCEPT !.pc = "loop", !.attempts = a, !.delay = d]
    /\ UNCHANGED <<cnx, ctor, attrs, info, auth>>

\* The loop of a call with attempts below 0 is followed for MaxAttempts
\* attempts.
RcLoop ==
    /\ rc.pc = "loop"
    /\ rc.attempts >= 0 \/ rc.counter < MaxAttempts
    /\ rc' = reconnect_loop(rc)
    /\ UNCHANGED <<cnx, ctor, attrs, info, auth>>

RcDisconnect ==
    /\ rc.pc = "disconnect"
    /\ \E quit_ok \in BOOLEAN : cnx' = close(cnx, quit_ok)
    /\ rc' = [rc EXCEPT !.pc = "connect", !.log = Append(@, "disconnect")]
    /\ UNCHANGED <<ctor, attrs, info, auth>>

RcConnect ==
    /\ rc.pc = "connect"
    /\ cnx' = connect_call(cnx)
    /\ rc' = [rc EXCEPT !.pc = "connecting", !.log = Append(@, "connect")]
    /\ UNCHANGED <<ctor, attrs, info, auth>>

RcConnectStep ==
    /\ rc.pc = "connecting"
    /\ \E ok \in BOOLEAN, class \in RaisedClasses, m \in ErrorMessages :
          /\ (ok => class = "Error" /\ m = "e1")
          /\ cnx' = connect_step(cnx, ok, class, m)
          /\ rc' = IF ~ok
                   THEN [rc EXCEPT !.pc = "except",
                                   !.err = [class |-> class, msg |-> m],
                                   !.tries = Append(@, Try("raise", class, m))]
                   ELSE IF cnx'.step = 0
                        THEN [rc EXCEPT !.pc = "is_connected"]
                        ELSE rc
    /\ UNCHANGED <<ctor, attrs, info, auth>>

RcIsConnected ==
    /\ rc.pc = "is_connected"
    /\ \E alive \in BOOLEAN : rc' = reconnect_probe(rc, is_connected(cnx, alive))
    /\ UNCHANGED <<cnx, ctor, attrs, info, auth>>

RcExcept ==
    /\ rc.pc = "except"
    /\ rc' = reconnect_except(rc)
    /\ UNCHANGED <<cnx, ctor, attrs, info, auth>>

RcDelay ==
    /\ rc.pc = "delay"
    /\ rc' = reconnect_delay(rc)
    /\ UNCHANGED <<cnx, ctor, attrs, info, auth>>

\* reconnect is called on a connection that was never connected or on one
\* that is Ready.
ReadyConnection(consume, ssl_off) ==
    [NewConnection(consume, ssl_off) EXCEPT !.state = "Ready",
                                            !.socket = "open",
                                            !.ssl_active = ~ssl_off]

InitReconnect ==
    /\ \E ssl_off \in BOOLEAN :
          cnx \in {NewConnection(FALSE, ssl_off), ReadyConnection(FALSE, ssl_off)}
    /\ rc = RcIdle
    /\ ctor = NoCtor
    /\ attrs = NoAttrs
    /\ info = NoInfo
    /\ auth = NoAuth

NextReconnect ==
    \/ RcCall
    \/ RcLoop
    \/ RcDisconnect
    \/ RcConnect
    \/ RcConnectStep
    \/ RcIsConnected
    \/ RcExcept
    \/ RcDelay

SpecReconnect == InitReconnect /\ [][NextReconnect]_vars

(***************************************************************************)
(* Construction: _validate_connection_options and _validate_tls_versions.  *)
(* The options that are not listed in the record keep their defaults.      *)
(***************************************************************************)
TLS_VERSIONS == <<"TLSv1.2", "TLSv1.3">>
DEPRECATED_TLS_VERSIONS == <<"TLSv1", "TLSv1.1">>

Range(seq) == {seq[i] : i \in 1..Len(seq)}

\* Text is a sequence of pieces; Text2Str is the string it spells.
RECURSIVE Text2Str(_)
Text2Str(t) == IF t = <<>> THEN "" ELSE Head(t) \o Text2Str(Tail(t))

\* str.split(",")
RECURSIVE Split(_)
Split(t) ==
    IF \A i \in 1..Len(t) : t[i] # ","
    THEN <<t>>
    ELSE LET i == CHOOSE j \in 1..Len(t) :
                      t[j] = "," /\ \A h \in 1..(j - 1) : t[h] # ","
         IN  <<SubSeq(t, 1, i - 1)>> \o Split(SubSeq(t, i + 1, Len(t)))

\* str.strip()
RECURSIVE Strip(_)
Strip(t) ==
    IF t # <<>> /\ Head(t) = " " THEN Strip(Tail(t))
    ELSE IF t # <<>> /\ t[Len(t)] = " " THEN Strip(SubSeq(t, 1, Len(t) - 1))
    ELSE t

\* A mutant of SortNames: the list is left in the order given.
SortNames_asgiven(names) == names

\* list.sort() of version names
RECURSIVE SortNames(_)
SortNames(names) ==
    IF names = <<>>
    THEN <<>>
    ELSE LET Rank(n) == CASE n = "TLSv1" -> 0
                          [] n = "TLSv1.1" -> 1
                          [] n = "TLSv1.2" -> 2
                          [] n = "TLSv1.3" -> 3
                          [] OTHER -> 4
             i == CHOOSE j \in 1..Len(names) :
                      \A h \in 1..Len(names) :
                          Rank(names[j]) < Rank(names[h])
                          \/ (Rank(names[j]) = Rank(names[h]) /\ j <= h)
         IN  <<names[i]>> \o
             SortNames(SubSeq(names, 1, i - 1) \o
                       SubSeq(names, i + 1, Len(names)))

\* The loops that collect tls_versions; a duplicate ends them with an error.
\* pieces holds texts when strip is set and strings otherwise.
RECURSIVE Collect(_, _, _, _)
Collect(pieces, acc, strip, checkdup) ==
    IF pieces = <<>>
    THEN [dup |-> FALSE, names |-> acc]
    ELSE LET name == IF strip THEN Text2Str(Strip(Head(pieces)))
                     ELSE Head(pieces)
         IN  IF strip /\ name = ""
             THEN Collect(Tail(pieces), acc, strip, checkdup)
             ELSE IF checkdup /\ name \in Range(acc)
                  THEN [dup |-> TRUE, names |-> acc]
                  ELSE Collect(Tail(pieces), Append(acc, name), strip, checkdup)

\* The second half of _validate_tls_versions: the names are sorted into
\* supported, deprecated and invalid ones (a name that is not deprecated
\* counts as invalid, a supported one too).
classify_tls_versions(o, names) ==
    LET use == SelectSeq(names, LAMBDA n : n \in Range(TLS_VERSIONS))
        deprecated ==
            SelectSeq(names, LAMBDA n : n \in Range(DEPRECATED_TLS_VERSIONS))
        invalid ==
            SelectSeq(names, LAMBDA n : n \notin Range(DEPRECATED_TLS_VERSIONS))
    IN  IF use # <<>>
        THEN IF use = <<"TLSv1.3">> /\ ~o.tls13
             THEN [o EXCEPT !.exc = "NotSupportedError",
                            !.msg = "TLS_VER_NO_SUPPORTED"]
             ELSE [o EXCEPT !.tls_versions = PyList(SortNames(use))]
        ELSE IF deprecated # <<>>
        THEN [o EXCEPT !.exc = "NotSupportedError",
                       !.msg = "TLS_VERSION_DEPRECATED_ERROR"]
        ELSE IF invalid # <<>>
        THEN [o EXCEPT !.exc = "AttributeError", !.msg = "TLS_VERSION_ERROR"]
        ELSE o

validate_tls_versions(o) ==
    LET v == o.tls_versions
        v1 == [o EXCEPT !.validated = TRUE]
        AttrErr(m) == [v1 EXCEPT !.exc = "AttributeError", !.msg = m]
        Finish(names) ==
            IF names = <<>>
            THEN AttrErr("At least one TLS protocol version must be specified")
            ELSE classify_tls_versions(v1, names)
    IN  CASE v.kind = "str" ->
               IF ~(v.chars # <<>> /\ Head(v.chars) = "["
                    /\ v.chars[Len(v.chars)] = "]")
               THEN AttrErr("tls_versions must be a list")
               ELSE LET tls_vers == Split(SubSeq(v.chars, 2, Len(v.chars) - 1))
                        got == Collect(tls_vers, <<>>, TRUE, TRUE)
                    IN  IF got.dup
                        THEN AttrErr("DUPLICATED_IN_LIST_ERROR")
                        ELSE IF tls_vers = <<<<"TLSv1.3">>>> /\ ~o.tls13
                        THEN AttrErr("TLS_VER_NO_SUPPORTED")
                        ELSE Finish(got.names)
          [] v.kind = "list" ->
               IF v.items = <<>>
               THEN AttrErr("At least one TLS protocol version must be specified")
               ELSE LET got == Collect(v.items, <<>>, FALSE, TRUE)
                    IN  IF got.dup
                        THEN AttrErr("DUPLICATED_IN_LIST_ERROR")
                        ELSE Finish(got.names)
          [] v.kind = "set" ->
               Finish(Collect(v.items, <<>>, FALSE, FALSE).names)
          [] OTHER ->
               AttrErr("tls_versions should be a list")

(***************************************************************************)
(* _validate_tls_ciphersuites.  The cipher tables hold a few of the        *)
(* entries of the connector's tables: two TLSv1.2 suites, whose OpenSSL    *)
(* names differ from the IANA names, and one TLSv1.3 suite, which has the  *)
(* same name in both.                                                      *)
(***************************************************************************)
MaxCipherLen == 2

TLSV1_2_CIPHER_SUITES ==
    [n \in {"TLS_RSA_WITH_AES_128_GCM_SHA256",
            "TLS_DHE_RSA_WITH_AES_128_CBC_SHA256"} |->
        IF n = "TLS_RSA_WITH_AES_128_GCM_SHA256"
        THEN "AES128-GCM-SHA256" ELSE "DHE-RSA-AES128-SHA256"]
TLSV1_3_CIPHER_SUITES ==
    [n \in {"TLS_AES_128_GCM_SHA256"} |-> "TLS_AES_128_GCM_SHA256"]

TLS_CIPHER_SUITES(tls_ver) ==
    IF tls_ver = "TLSv1.2" THEN TLSV1_2_CIPHER_SUITES ELSE TLSV1_3_CIPHER_SUITES

\* OPENSSL_CS_NAMES[tls_ver]: the values of the table of the version.
OPENSSL_CS_NAMES(tls_ver) ==
    {TLS_CIPHER_SUITES(tls_ver)[n] : n \in DOMAIN TLS_CIPHER_SUITES(tls_ver)}

\* The names given as cipher suites, and those that hold a "-".
CipherNames ==
    DOMAIN TLSV1_2_CIPHER_SUITES \cup DOMAIN TLSV1_3_CIPHER_SUITES
    \cup OPENSSL_CS_NAMES("TLSv1.2")
    \cup {"NO_SUCH_CIPHER", "NO-SUCH-CIPHER", "tls_aes_128_gcm_sha256", ""}
HasDash(name) == name \in OPENSSL_CS_NAMES("TLSv1.2") \cup {"NO-SUCH-CIPHER"}

\* str.upper() of a piece of text
Upper(piece) ==
    IF piece = "tls_aes_128_gcm_sha256" THEN "TLS_AES_128_GCM_SHA256" ELSE piece

\* ":".join(names)
RECURSIVE ColonJoin(_)
ColonJoin(names) ==
    IF names = <<>> THEN ""
    ELSE IF Tail(names) = <<>> THEN Head(names)
    ELSE Head(names) \o ":" \o ColonJoin(Tail(names))

\* The position of a version in TLS_VERSIONS, 0 when it is not there.
IndexOf(tls_ver) ==
    IF tls_ver \in Range(TLS_VERSIONS)
    THEN CHOOSE i \in 1..Len(TLS_VERSIONS) : TLS_VERSIONS[i] = tls_ver
    ELSE 0

\* TLS_VERSIONS[: TLS_VERSIONS.index(newer_tls_ver) + 1]: the newest version
\* requested and the versions before it.
CipherVersions_newest(upto) == {TLS_VERSIONS[upto]}
CipherVersions(upto) == {TLS_VERSIONS[i] : i \in 1..upto}

\* The loop over the names given.  translated_names is a list of two lists
\* of names; `translated_name in translated_names` compares the name, a str,
\* with each of the two lists.
RECURSIVE translate_names(_, _, _, _)
translate_names(o, names, translated_names, upto) ==
    LET iani_cipher_suites_names ==
            UNION {DOMAIN TLS_CIPHER_SUITES(v) : v \in CipherVersions(upto)}
        ossl_cipher_suites_names ==
            UNION {OPENSSL_CS_NAMES(v) : v \in CipherVersions(upto)}
        Translated(n) ==
            LET v == CHOOSE w \in CipherVersions(upto) :
                         /\ n \in DOMAIN TLS_CIPHER_SUITES(w)
                         /\ \A x \in CipherVersions(upto) :
                                IndexOf(x) > IndexOf(w)
                                    => n \notin DOMAIN TLS_CIPHER_SUITES(x)
            IN  TLS_CIPHER_SUITES(v)[n]
        AppendTo(k, n) ==
            [translated_names EXCEPT ![k] = PyList(Append(@.items, n))]
    IN  IF names = <<>>
        THEN IF translated_names[1].items = <<>> /\ translated_names[2].items = <<>>
             THEN [o EXCEPT !.exc = "AttributeError",
                            !.msg = "No valid cipher suite found in the 'tls_ciphersuites' list"]
             ELSE [o EXCEPT !.tls_ciphersuites =
                       PyList(<<ColonJoin(translated_names[1].items),
                                ColonJoin(translated_names[2].items)>>)]
        ELSE LET name == Head(names) IN
             IF HasDash(name) /\ name \in ossl_cipher_suites_names
             THEN translate_names(o, Tail(names),
                      AppendTo(IF name \in OPENSSL_CS_NAMES("TLSv1.3") THEN 2 ELSE 1,
                               name), upto)
             ELSE IF name \in iani_cipher_suites_names
             THEN IF PyStr(<<Translated(name)>>) \in Range(translated_names)
                  THEN [o EXCEPT !.exc = "AttributeError",
                                 !.msg = "DUPLICATED_IN_LIST_ERROR"]
                  ELSE translate_names(o, Tail(names),
                           AppendTo(IF name \in DOMAIN TLS_CIPHER_SUITES("TLSv1.3")
                                    THEN 2 ELSE 1, Translated(name)), upto)
             ELSE [o EXCEPT !.exc = "AttributeError",
                            !.msg = "not a valid cipher suite"]

validate_tls_ciphersuites(o) ==
    LET tls_cs == o.tls_ciphersuites
        o1 == [o EXCEPT !.cs_validated = TRUE]
        AttrErr(m) == [o1 EXCEPT !.exc = "AttributeError", !.msg = m]
        Rest(tls_ciphersuites) ==
            LET tls_versions ==
                    IF o.tls_versions.kind = "None" THEN TLS_VERSIONS
                    ELSE SortNames(o.tls_versions.items)
            IN  IF tls_versions = <<>>
                THEN [o1 EXCEPT !.exc = "IndexError",
                                !.msg = "list index out of range"]
                ELSE LET newer_tls_ver == tls_versions[Len(tls_versions)] IN
                     IF IndexOf(newer_tls_ver) = 0
                     THEN [o1 EXCEPT !.exc = "ValueError",
                                     !.msg = "is not in list"]
                     ELSE translate_names(o1, tls_ciphersuites,
                              <<PyList(<<>>), PyList(<<>>)>>,
                              IndexOf(newer_tls_ver))
    IN  CASE tls_cs.kind = "str" ->
               IF ~(tls_cs.chars # <<>> /\ Head(tls_cs.chars) = "["
                    /\ tls_cs.chars[Len(tls_cs.chars)] = "]")
               THEN AttrErr("tls_ciphersuites must be a list")
               ELSE LET tls_css == Split(SubSeq(tls_cs.chars, 2, Len(tls_cs.chars) - 1))
                        whole == Text2Str([i \in 1..Len(Strip(tls_cs.chars)) |->
                                              Upper(Strip(tls_cs.chars)[i])])
                    IN  Rest([i \in 1..Len(tls_css) |-> whole])
          [] tls_cs.kind \in {"list", "set"} ->
               Rest(SelectSeq(tls_cs.items, LAMBDA n : n # ""))
          [] OTHER ->
               AttrErr("tls_ciphersuites should be a list with one or more ciphersuites")

IsSet(v) == v \notin {"None", ""}

\* _validate_connection_options, the block on the ssl options.
validate_ssl_options(o) ==
    IF IsSet(o.ssl_ca) \/ IsSet(o.ssl_cert) \/ IsSet(o.ssl_key)
    THEN IF ~(IsSet(o.ssl_key) /\ IsSet(o.ssl_cert))
         THEN [o EXCEPT !.exc = "AttributeError",
                        !.msg = "ssl_key and ssl_cert need to be both specified, or neither"]
         ELSE IF (o.ssl_key = "None") # (o.ssl_cert = "None")
         THEN [o EXCEPT !.exc = "AttributeError",
                        !.msg = "ssl_key and ssl_cert need to be both set, or neither"]
         ELSE LET o1 == IF Truthy(o.tls_versions)
                        THEN validate_tls_versions(o) ELSE o
              IN  IF o1.exc = "" /\ Truthy(o1.tls_ciphersuites)
                  THEN validate_tls_ciphersuites(o1)
                  ELSE o1
    ELSE o

\* The default attributes, the same for every connection of the process.
DefaultConnAttrs ==
    [n \in {"_client_name", "_pid"} |->
        IF n = "_pid" THEN "4242" ELSE "mysql-connector-python"]

(***************************************************************************)
(* The client flags.  A Python int is unbounded; the ints of the model are *)
(* those of -2^MaxFlagBits .. 2^MaxFlagBits - 1, on which &, | and ~ never *)
(* leave the range.  Bits(n) is the two's complement of n: position        *)
(* MaxFlagBits stands for the sign and every higher bit.                   *)
(***************************************************************************)
MaxFlagBits == 3

RECURSIVE Pow2(_)
Pow2(n) == IF n = 0 THEN 1 ELSE 2 * Pow2(n - 1)

FlagInts == (0 - Pow2(MaxFlagBits))..(Pow2(MaxFlagBits) - 1)

Bits(n) ==
    LET m == IF n < 0 THEN n + Pow2(MaxFlagBits + 1) ELSE n
    IN  {i \in 0..MaxFlagBits : (m \div Pow2(i)) % 2 = 1}

RECURSIVE SumPow2(_)
SumPow2(b) ==
    IF b = {} THEN 0
    ELSE LET i == CHOOSE j \in b : TRUE IN Pow2(i) + SumPow2(b \ {i})

FromBits(b) ==
    SumPow2(b \ {MaxFlagBits})
    - (IF MaxFlagBits \in b THEN Pow2(MaxFlagBits) ELSE 0)

\* a & b, a | b, ~a and abs(a)
BitAnd(a, b) == FromBits(Bits(a) \cap Bits(b))
BitOr(a, b) == FromBits(Bits(a) \cup Bits(b))
BitNot(a) == 0 - a - 1
abs(a) == IF a < 0 THEN 0 - a ELSE a

\* The flags of ClientFlag that the constructor sets, and the default flags.
LOCAL_FILES == 1
COMPRESS == 2
CONNECT_ARGS == 4
get_default == CONNECT_ARGS

PyTuple(items) == [kind |-> "tuple", items |-> items, chars |-> <<>>, num |-> 0]

\* The loop of set_client_flags over the entries of a list or a tuple.
RECURSIVE apply_flags(_, _)
apply_flags(client_flags, flags) ==
    IF flags = <<>> THEN client_flags
    ELSE LET flag == Head(flags) IN
         apply_flags(IF flag < 0
                     THEN BitAnd(client_flags, BitNot(abs(flag)))
                     ELSE BitOr(client_flags, flag),
                     Tail(flags))

\* A mutant of set_client_flags: an int is ORed into the flags.
set_client_flags_or(client_flags, flags) ==
    IF flags.kind \in {"int", "bool"} /\ flags.num > 0
    THEN [exc |-> "", client_flags |-> BitOr(client_flags, flags.num)]
    ELSE IF flags.kind \in {"tuple", "list"}
    THEN [exc |-> "", client_flags |-> apply_flags(client_flags, flags.items)]
    ELSE [exc |-> "ProgrammingError", client_flags |-> client_flags]

\* set_client_flags: the exception raised and the flags left, which are
\* the value returned.
set_client_flags(client_flags, flags) ==
    IF flags.kind \in {"int", "bool"} /\ flags.num > 0
    THEN [exc |-> "", client_flags |-> flags.num]
    ELSE IF flags.kind \in {"tuple", "list"}
    THEN [exc |-> "", client_flags |-> apply_flags(client_flags, flags.items)]
    ELSE [exc |-> "ProgrammingError", client_flags |-> client_flags]

isset_client_flag(client_flags, flag) == BitAnd(client_flags, flag) > 0

(***************************************************************************)
(* _validate_connection_options, the checks on the other options, in the   *)
(* order of the code.  Each check leaves alone an object on which an       *)
(* earlier check has raised.                                               *)
(***************************************************************************)
InterfaceError(o, message) ==
    [o EXCEPT !.exc = "InterfaceError", !.msg = message]
ProgrammingError(o, message) ==
    [o EXCEPT !.exc = "ProgrammingError", !.msg = message]

\* The user name is stripped; compress sets a client flag.
validate_user(o) ==
    IF o.exc # "" THEN o
    ELSE LET o1 == IF ~Truthy(o.user) THEN o
                   ELSE IF o.user.kind # "str"
                   THEN [o EXCEPT !.exc = "AttributeError",
                                  !.msg = "'user' must be a string"]
                   ELSE [o EXCEPT !.user = PyStr(Strip(o.user.chars))]
         IN  IF o1.exc = "" /\ o1.compress
             THEN [o1 EXCEPT !.client_flags =
                       set_client_flags(@, PyList(<<COMPRESS>>)).client_flags]
             ELSE o1

\* The entries of the file system: a directory, a regular file, a name that
\* does not exist, and symbolic links to each of the three.
Paths == {"/dir", "/file", "/missing", "/link_dir", "/link_file", "/link_missing"}
exists(path) == path \in {"/dir", "/file", "/link_dir", "/link_file"}
isdir(path) == path \in {"/dir", "/link_dir"}
islink(path) == path \in {"/link_dir", "/link_file", "/link_missing"}
\* os.path.abspath, the working directory being "/"
abspath(path) == IF path = "dir" THEN "/dir" ELSE path

\* `path and exists and not isdir or islink`: `or` binds weaker than `and`.
not_a_directory(path) ==
    (path # "" /\ exists(path) /\ ~isdir(path)) \/ islink(path)

\* A mutant of the block: LOCAL_FILES is set when allowed and never cleared.
validate_allow_local_infile_in_path_set_only(o) ==
    IF o.exc # "" THEN o
    ELSE LET given == o.allow_local_infile_in_path
             o1 == IF ~Truthy(given) THEN o
                   ELSE IF given.kind # "str"
                   THEN [o EXCEPT !.exc = "TypeError",
                                  !.msg = "expected str, bytes or os.PathLike object"]
                   ELSE IF not_a_directory(abspath(Text2Str(given.chars)))
                   THEN [o EXCEPT !.exc = "AttributeError",
                                  !.msg = "allow_local_infile_in_path must be a directory"]
                   ELSE o
         IN  IF o1.exc # "" THEN o1
             ELSE IF o1.allow_local_infile \/ Truthy(given)
             THEN [o1 EXCEPT !.client_flags =
                       set_client_flags(@, PyList(<<LOCAL_FILES>>)).client_flags]
             ELSE o1

validate_allow_local_infile_in_path(o) ==
    IF o.exc # "" THEN o
    ELSE LET given == o.allow_local_infile_in_path
             o1 == IF ~Truthy(given) THEN o
                   ELSE IF given.kind # "str"
                   THEN [o EXCEPT !.exc = "TypeError",
                                  !.msg = "expected str, bytes or os.PathLike object"]
                   ELSE IF not_a_directory(abspath(Text2Str(given.chars)))
                   THEN [o EXCEPT !.exc = "AttributeError",
                                  !.msg = "allow_local_infile_in_path must be a directory"]
                   ELSE o
         IN  IF o1.exc # "" THEN o1
             ELSE IF o1.allow_local_infile \/ Truthy(given)
             THEN [o1 EXCEPT !.client_flags =
                       set_client_flags(@, PyList(<<LOCAL_FILES>>)).client_flags]
             ELSE [o1 EXCEPT !.client_flags =
                       set_client_flags(@, PyList(<<0 - LOCAL_FILES>>)).client_flags]

\* The default plugin, the unix socket and the port.
\* A mutant of the block: a unix socket does not disable TLS.
validate_transport_socket_tls(o) ==
    IF o.exc # "" THEN o
    ELSE IF o.auth_plugin = "authentication_webauthn_client"
    THEN InterfaceError(o, "cannot be used as the default authentication plugin")
    ELSE IF o.ssl_disabled /\ o.auth_plugin = "mysql_clear_password"
    THEN InterfaceError(o, "Clear password authentication is not supported over insecure channels")
    ELSE IF o.port.kind # "int"
    THEN InterfaceError(o, "TCP/IP port number should be an integer")
    ELSE o

validate_transport(o) ==
    IF o.exc # "" THEN o
    ELSE IF o.auth_plugin = "authentication_webauthn_client"
    THEN InterfaceError(o, "cannot be used as the default authentication plugin")
    ELSE LET o1 == IF IsSet(o.unix_socket) /\ o.os_name = "posix"
                   THEN [o EXCEPT !.ssl_disabled = TRUE] ELSE o
         IN  IF o1.ssl_disabled /\ o1.auth_plugin = "mysql_clear_password"
             THEN InterfaceError(o1, "Clear password authentication is not supported over insecure channels")
             ELSE IF o1.port.kind # "int"
             THEN InterfaceError(o1, "TCP/IP port number should be an integer")
             ELSE o1

\* The limits on the length of the name and of the value of an attribute.
AttrNameLimit == 32
AttrValueLimit == 1024

\* len(attr_value) > 1024
value_too_long_from_limit(attr_value) == Len(attr_value.chars) >= AttrValueLimit
value_too_long(attr_value) == Len(attr_value.chars) > AttrValueLimit

\* The names of the default attributes, which are not checked.
CONN_ATTRS_DN == DOMAIN DefaultConnAttrs

\* The loop over the entries of the dict.  The strings of an attribute are
\* sequences of characters.
RECURSIVE validate_attrs(_, _)
validate_attrs(o, items) ==
    IF items = <<>> THEN o
    ELSE LET attr_name == Head(items).name
             attr_value == Head(items).value
         IN  IF attr_name.kind = "str" /\ Text2Str(attr_name.chars) \in CONN_ATTRS_DN
             THEN validate_attrs(o, Tail(items))
             ELSE IF attr_name.kind # "str"
             THEN InterfaceError(o, "Attribute name should be a string")
             ELSE IF Len(attr_name.chars) > AttrNameLimit
             THEN InterfaceError(o, "Attribute name exceeds 32 characters limit size")
             ELSE IF attr_name.chars # <<>> /\ Head(attr_name.chars) = "_"
             THEN InterfaceError(o, "Key names in connection attributes cannot start with '_'")
             ELSE IF attr_value.kind # "str"
             THEN InterfaceError(o, "Attribute value must be a string type")
             ELSE IF value_too_long(attr_value)
             THEN InterfaceError(o, "Attribute value exceeds 1024 characters limit size")
             ELSE validate_attrs(o, Tail(items))

validate_connection_attrs(o) ==
    IF o.exc # "" THEN o
    ELSE IF o.connection_attrs.kind # "dict"
    THEN InterfaceError(o, "conn_attrs must be of type dict")
    ELSE LET o1 == validate_attrs(o, o.connection_attrs.items)
         IN  IF o1.exc = "" /\ BitAnd(o1.client_flags, CONNECT_ARGS) # 0
             THEN [o1 EXCEPT !.default_attrs = TRUE]
             ELSE o1

\* str.lower() of a piece of text
Lower(piece) ==
    CASE piece \in {"GSSAPI", "GssApi"} -> "gssapi"
      [] piece \in {"SSPI", "Sspi"} -> "sspi"
      [] piece = "ABC" -> "abc"
      [] OTHER -> piece

\* The guard of the block on kerberos_auth_mode.
kerberos_auth_mode_given(v) == Truthy(v)

validate_kerberos_auth_mode(o) ==
    IF o.exc # "" \/ ~kerberos_auth_mode_given(o.kerberos_auth_mode) THEN o
    ELSE IF o.kerberos_auth_mode.kind # "str"
    THEN InterfaceError(o, "'kerberos_auth_mode' must be of type str")
    ELSE LET kerberos_auth_mode ==
                 Text2Str([i \in 1..Len(o.kerberos_auth_mode.chars) |->
                              Lower(o.kerberos_auth_mode.chars[i])])
         IN  IF kerberos_auth_mode = "sspi"
             THEN IF o.os_name # "nt"
                  THEN InterfaceError(o, "'kerberos_auth_mode=SSPI' is only available on Windows")
                  ELSE [o EXCEPT !.auth_plugin_class = "MySQLSSPIKerberosAuthPlugin"]
             ELSE IF kerberos_auth_mode = "gssapi"
             THEN [o EXCEPT !.auth_plugin_class = "MySQLKerberosAuthPlugin"]
             ELSE InterfaceError(o, "Invalid 'kerberos_auth_mode' mode. Please use 'SSPI' or 'GSSAPI'")

\* The guard of the block on krb_service_principal.
krb_service_principal_given(v) == Truthy(v)

validate_krb_service_principal(o) ==
    IF o.exc # "" \/ ~krb_service_principal_given(o.krb_service_principal) THEN o
    ELSE IF o.krb_service_principal.kind # "str"
    THEN InterfaceError(o, "krb_service_principal is not a string")
    ELSE IF o.krb_service_principal.chars = <<>>
    THEN InterfaceError(o, "krb_service_principal can not be an empty string")
    ELSE IF "/" \notin Range(o.krb_service_principal.chars)
    THEN InterfaceError(o, "krb_service_principal is incorrectly formatted")
    ELSE o

\* utils.import_object: the object a dotted path names, ValueError when the
\* path names none.
Importable ==
    [path \in {"callbacks.no_args", "callbacks.one_arg", "callbacks.two_args",
               "callbacks.VALUE"} |->
        CASE path = "callbacks.no_args" -> PyFunction(0)
          [] path = "callbacks.one_arg" -> PyFunction(1)
          [] path = "callbacks.two_args" -> PyFunction(2)
          [] OTHER -> PyInt(5)]
import_object(fullpath) ==
    IF fullpath \in DOMAIN Importable
    THEN [exc |-> "", object |-> Importable[fullpath]]
    ELSE [exc |-> "ValueError", object |-> PyNone]

\* len(signature(callback).parameters) != num_args
wrong_num_params(num_params, num_args) == num_params # num_args

validate_callable(o, option_name, callback, num_args) ==
    LET imported == IF callback.kind = "str"
                    THEN import_object(Text2Str(callback.chars))
                    ELSE [exc |-> "", object |-> callback]
    IN  IF imported.exc # ""
        THEN ProgrammingError(o, "ValueError")
        ELSE IF imported.object.kind # "function"
        THEN ProgrammingError(o, "Expected a callable for " \o option_name)
        ELSE IF wrong_num_params(imported.object.num, num_args)
        THEN ProgrammingError(o, option_name \o " requires 1 positional argument")
        ELSE o

validate_callbacks(o) ==
    IF o.exc # "" THEN o
    ELSE LET o1 == IF Truthy(o.fido_callback)
                   THEN validate_callable([o EXCEPT !.warned = TRUE],
                                          "fido_callback", o.fido_callback, 1)
                   ELSE o
         IN  IF o1.exc = "" /\ Truthy(o1.webauthn_callback)
             THEN validate_callable(o1, "webauth_callback", o1.webauthn_callback, 1)
             ELSE o1

(***************************************************************************)
(* get_warnings and raise_on_warnings.  call is the last assignment to one *)
(* of the two properties, with the value assigned and the exception it     *)
(* raised.                                                                 *)
(***************************************************************************)
\* The setter of get_warnings.
set_get_warnings(o, value) ==
    IF value.kind # "bool"
    THEN [o EXCEPT !.call = [op |-> "get_warnings", arg |-> value,
                             exc |-> "ValueError"]]
    ELSE [o EXCEPT !.get_warnings = value,
                   !.call = [op |-> "get_warnings", arg |-> value, exc |-> ""]]

\* A mutant of set_raise_on_warnings: _get_warnings is left alone.
set_raise_on_warnings_only(o, value) ==
    IF value.kind # "bool"
    THEN [o EXCEPT !.call = [op |-> "raise_on_warnings", arg |-> value,
                             exc |-> "ValueError"]]
    ELSE [o EXCEPT !.raise_on_warnings = value,
                   !.call = [op |-> "raise_on_warnings", arg |-> value,
                             exc |-> ""]]

\* The setter of raise_on_warnings.
set_raise_on_warnings(o, value) ==
    IF value.kind # "bool"
    THEN [o EXCEPT !.call = [op |-> "raise_on_warnings", arg |-> value,
                             exc |-> "ValueError"]]
    ELSE [o EXCEPT !.raise_on_warnings = value,
                   !.get_warnings = IF Truthy(value) THEN value ELSE @,
                   !.call = [op |-> "raise_on_warnings", arg |-> value,
                             exc |-> ""]]

\* __init__: `client_flags or ClientFlag.get_default()`, _get_warnings is
\* the argument as given, raise_on_warnings is assigned through its setter.
init_warnings(o0) ==
    LET o == [o0 EXCEPT !.client_flags = IF @ = 0 THEN get_default ELSE @]
        o1 == set_raise_on_warnings(o, o.raise_on_warnings)
    IN  IF o1.call.exc # ""
        THEN [o EXCEPT !.exc = o1.call.exc, !.msg = "Expected a boolean type"]
        ELSE [o1 EXCEPT !.call = o.call]

validate_connection_options(o) ==
    LET first == validate_transport(
                     validate_allow_local_infile_in_path(validate_user(o)))
        ssl == IF first.exc = "" THEN validate_ssl_options(first) ELSE first
        rest == validate_callbacks(
                    validate_krb_service_principal(
                        validate_kerberos_auth_mode(
                            validate_connection_attrs(ssl))))
    IN  [rest EXCEPT !.done = TRUE]

\* The values given for tls_versions.
TlsNames == Range(TLS_VERSIONS) \cup Range(DEPRECATED_TLS_VERSIONS) \cup {"TLSv1.4"}

NameLists == UNION {[1..n -> TlsNames] : n \in 0..MaxTlsLen}

RECURSIVE Join(_, _)
Join(names, pad) ==
    IF names = <<>> THEN <<>>
    ELSE (IF pad THEN <<" ">> ELSE <<>>) \o <<Head(names)>>
         \o (IF Tail(names) = <<>> THEN <<>> ELSE <<",">> \o Join(Tail(names), pad))

TlsValues ==
    {PyList(l) : l \in NameLists}
    \cup {PySet(l) : l \in {m \in NameLists : Cardinality(Range(m)) = Len(m)}}
    \cup {PyStr((IF open THEN <<"[">> ELSE <<>>) \o Join(l, pad)
                \o (IF shut THEN <<"]">> ELSE <<>>)) :
             l \in NameLists, open \in BOOLEAN, shut \in BOOLEAN,
             pad \in BOOLEAN}
    \cup {PyInt(0), PyInt(5), PyNone}

FileValues == {"None", "", "file.pem"}

InitCtor ==
    /\ cnx = NewConnection(FALSE, FALSE)
    /\ rc = RcIdle
    /\ attrs = NoAttrs
    /\ info = NoInfo
    /\ auth = NoAuth
    /\ \E ca \in FileValues, cert \in FileValues, key \in FileValues,
          tls \in TlsValues, t13 \in BOOLEAN :
          ctor = [NoCtor EXCEPT !.ssl_ca = ca, !.ssl_cert = cert,
                                !.ssl_key = key, !.tls_versions = tls,
                                !.given = tls, !.tls13 = t13]

Construct ==
    /\ ~ctor.done
    /\ ctor' = validate_connection_options(init_warnings(ctor))
    /\ UNCHANGED <<cnx, rc, attrs, info, auth>>

NextCtor == Construct

SpecCtor == InitCtor /\ [][NextCtor]_vars

(***************************************************************************)
(* Construction with one of the other options given: the connection        *)
(* attributes, kerberos_auth_mode, krb_service_principal,                  *)
(* allow_local_infile_in_path or the two callbacks.                        *)
(***************************************************************************)
MaxAttrs == 2

\* A string of n characters that starts with the character first.
Chars(first, n) == [i \in 1..n |-> IF i = 1 THEN first ELSE "a"]

AttrNameValues ==
    {PyStr(<<"_", "p", "i", "d">>), PyStr(<<>>), PyStr(Chars("a", 1)),
     PyStr(Chars("_", 2)), PyStr(Chars("a", AttrNameLimit)),
     PyStr(Chars("a", AttrNameLimit + 1)), PyInt(5)}
AttrValueValues ==
    {PyStr(Chars("a", 1)), PyStr(Chars("a", AttrValueLimit)),
     PyStr(Chars("a", AttrValueLimit + 1)), PyInt(5)}

\* The dicts of n entries, no two with the same name, and the values
\* that are no dict.
ConnAttrsDicts(n) ==
    {PyDict(d) : d \in {e \in [1..n -> [name : AttrNameValues,
                                        value : AttrValueValues]] :
                            \A i, j \in 1..n : e[i].name = e[j].name => i = j}}
ConnAttrsValues(n) ==
    IF n = 0 THEN {PyNone, PyList(<<>>), PyStr(<<"a">>), PyDict(<<>>)}
    ELSE ConnAttrsDicts(n)

KerberosValues ==
    {PyNone, PyInt(0), PyInt(5), PyStr(<<>>), PyList(<<>>),
     PyList(<<"GSSAPI">>)}
    \cup {PyStr(<<t>>) : t \in {"gssapi", "GSSAPI", "GssApi", "sspi", "SSPI",
                                "abc", "ABC"}}

PrincipalValues ==
    {PyNone, PyInt(0), PyInt(5), PyList(<<>>), PyList(<<"service/host">>),
     PyStr(<<>>), PyStr(<<"service">>), PyStr(<<"service", "/", "host">>),
     PyStr(<<"/">>)}

PathValues ==
    {PyNone, PyStr(<<>>), PyInt(0), PyInt(5), PyStr(<<"dir">>)}
    \cup {PyStr(<<path>>) : path \in Paths}

AuthPluginValues ==
    {"None", "mysql_native_password", "mysql_clear_password",
     "authentication_webauthn_client"}

UnixSocketValues == {"None", "", "/tmp/mysql.sock"}

CallbackValues ==
    {PyNone, PyStr(<<>>), PyInt(0), PyInt(5), PyList(<<>>),
     PyStr(<<"abc">>), PyStr(<<"abc.abc">>)}
    \cup {PyStr(<<path>>) : path \in DOMAIN Importable}
    \cup {PyFunction(n) : n \in 0..2}

InitOptions ==
    /\ cnx = NewConnection(FALSE, FALSE)
    /\ rc = RcIdle
    /\ attrs = NoAttrs
    /\ info = NoInfo
    /\ auth = NoAuth
    /\ \/ \E n \in 0..MaxAttrs : \E d \in ConnAttrsValues(n) :
             ctor = [NoCtor EXCEPT !.connection_attrs = d]
       \/ \E mode \in KerberosValues, os_name \in {"posix", "nt"} :
             ctor = [NoCtor EXCEPT !.kerberos_auth_mode = mode,
                                   !.os_name = os_name]
       \/ \E principal \in PrincipalValues :
             ctor = [NoCtor EXCEPT !.krb_service_principal = principal]
       \/ \E path \in PathValues :
             ctor = [NoCtor EXCEPT !.allow_local_infile_in_path = path]
       \/ \E fido \in CallbackValues, webauthn \in CallbackValues :
             ctor = [NoCtor EXCEPT !.fido_callback = fido,
                                   !.webauthn_callback = webauthn]
       \/ \E client_flags \in FlagInts, compress \in BOOLEAN,
             allow \in BOOLEAN, path \in PathValues :
             ctor = [NoCtor EXCEPT !.client_flags = client_flags,
                                   !.compress = compress,
                                   !.allow_local_infile = allow,
                                   !.allow_local_infile_in_path = path]
       \/ \E plugin \in AuthPluginValues, unix_socket \in UnixSocketValues,
             ssl_disabled \in BOOLEAN, os_name \in {"posix", "nt"} :
             ctor = [NoCtor EXCEPT !.auth_plugin = plugin,
                                   !.unix_socket = unix_socket,
                                   !.ssl_disabled = ssl_disabled,
                                   !.os_name = os_name]

SpecOptions == InitOptions /\ [][NextCtor]_vars

(***************************************************************************)
(* A connection and the assignments to its get_warnings and                *)
(* raise_on_warnings properties.                                           *)
(***************************************************************************)
WarningValues ==
    {PyTrue, PyFalse, PyInt(0), PyInt(1), PyNone, PyStr(<<"yes">>)}

InitWarnings ==
    /\ cnx = NewConnection(FALSE, FALSE)
    /\ rc = RcIdle
    /\ attrs = NoAttrs
    /\ info = NoInfo
    /\ auth = NoAuth
    /\ \E get \in WarningValues, raise \in WarningValues :
          ctor = [NoCtor EXCEPT !.get_warnings = get,
                                !.raise_on_warnings = raise]

SetGetWarnings ==
    /\ ctor.done
    /\ ctor.exc = ""
    /\ \E value \in WarningValues : ctor' = set_get_warnings(ctor, value)
    /\ UNCHANGED <<cnx, rc, attrs, info, auth>>

SetRaiseOnWarnings ==
    /\ ctor.done
    /\ ctor.exc = ""
    /\ \E value \in WarningValues : ctor' = set_raise_on_warnings(ctor, value)
    /\ UNCHANGED <<cnx, rc, attrs, info, auth>>

NextWarnings ==
    \/ Construct
    \/ SetGetWarnings
    \/ SetRaiseOnWarnings

SpecWarnings == InitWarnings /\ [][NextWarnings]_vars

\* The values of _tls_ciphersuites and _tls_versions on which
\* _validate_tls_ciphersuites is called.
CipherLists == UNION {[1..n -> CipherNames] : n \in 0..MaxCipherLen}

CipherValues ==
    {PyList(l) : l \in CipherLists}
    \cup {PySet(l) : l \in {m \in CipherLists : Cardinality(Range(m)) = Len(m)}}
    \cup {PyStr((IF open THEN <<"[">> ELSE <<>>) \o Join(l, pad) \o <<"]">>) :
             l \in CipherLists, open \in BOOLEAN, pad \in BOOLEAN}
    \cup {PyInt(5), PyNone}

CipherTlsValues ==
    {PyNone}
    \cup {PyList(l) : l \in {m \in NameLists :
                               /\ Cardinality(Range(m)) = Len(m)
                               /\ Range(m) \subseteq Range(TLS_VERSIONS) \cup {"TLSv1.1"}}}

InitCiphers ==
    /\ cnx = NewConnection(FALSE, FALSE)
    /\ rc = RcIdle
    /\ attrs = NoAttrs
    /\ info = NoInfo
    /\ auth = NoAuth
    /\ \E cs \in CipherValues, tls \in CipherTlsValues :
          ctor = [NoCtor EXCEPT !.tls_ciphersuites = cs, !.cs_given = cs,
                                !.tls_versions = tls, !.given = tls]

ValidateTlsCiphersuites ==
    /\ ~ctor.done
    /\ ctor' = [validate_tls_ciphersuites(ctor) EXCEPT !.done = TRUE]
    /\ UNCHANGED <<cnx, rc, attrs, info, auth>>

NextCiphers == ValidateTlsCiphersuites

SpecCiphers == InitCiphers /\ [][NextCiphers]_vars

(***************************************************************************)
(* The connection attributes of the connections of one process.            *)
(***************************************************************************)
UserAttrNames == {"app", "team"}
UserDicts == UNION {[names -> {"x"}] : names \in SUBSET UserAttrNames}

\* dict.update(other)
Update(d, other) == other @@ d

\* _add_default_conn_attrs: the default attributes are added to the dict
\* the connection holds.
add_default_conn_attrs(a, obj) ==
    [a EXCEPT !.heap[obj] = Update(@, DefaultConnAttrs)]

\* __init__ up to the connection attributes: _connection_attrs is the
\* object given as conn_attrs (the default object when none is given); the
\* default attributes are added when the client flags hold CONNECT_ARGS.
init_conn_attrs(a, obj, given, connect_args) ==
    LET b == [a EXCEPT !.ref = Append(@, obj),
                       !.by_default = Append(@, ~given)]
    IN  IF connect_args THEN add_default_conn_attrs(b, obj) ELSE b

\* The map connection i sees.
ConnAttrs(a, i) == a.heap[a.ref[i]]

NewDefault ==
    /\ Len(attrs.ref) < MaxConnections
    /\ \E connect_args \in BOOLEAN :
          attrs' = init_conn_attrs(attrs, 1, FALSE, connect_args)
    /\ UNCHANGED <<cnx, rc, ctor, info, auth>>

NewWithAttrs ==
    /\ Len(attrs.ref) < MaxConnections
    /\ \E d \in UserDicts, connect_args \in BOOLEAN :
          attrs' = init_conn_attrs([attrs EXCEPT !.heap = Append(@, d)],
                                   Len(attrs.heap) + 1, TRUE, connect_args)
    /\ UNCHANGED <<cnx, rc, ctor, info, auth>>

InitAttrs ==
    /\ cnx = NewConnection(FALSE, FALSE)
    /\ rc = RcIdle
    /\ ctor = NoCtor
    /\ attrs = NoAttrs
    /\ info = NoInfo
    /\ auth = NoAuth

NextAttrs ==
    \/ NewDefault
    \/ NewWithAttrs

SpecAttrs == InitAttrs /\ [][NextAttrs]_vars

(***************************************************************************)
(* ServerInfo: the server version of the handshake, parsed and validated   *)
(* by __post_init__.  A version string is a sequence of characters.        *)
(***************************************************************************)
MaxVerLen == 8

VerChars == {"0", "1", "4", ".", "a"}
\* The version strings of n characters.
VersionStrings(n) == [1..n -> VerChars]

IsDigit(ch) == ch \in {"0", "1", "2", "3", "4", "5", "6", "7", "8", "9"}

DigitValue(ch) ==
    CASE ch = "0" -> 0 [] ch = "1" -> 1 [] ch = "2" -> 2 [] ch = "3" -> 3
      [] ch = "4" -> 4 [] ch = "5" -> 5 [] ch = "6" -> 6 [] ch = "7" -> 7
      [] ch = "8" -> 8 [] ch = "9" -> 9

\* int(v) of a string of decimal digits.
RECURSIVE int(_)
int(v) ==
    IF v = <<>> THEN 0
    ELSE 10 * int(SubSeq(v, 1, Len(v) - 1)) + DigitValue(v[Len(v)])

\* \d{n} matches s from position i, and \. matches s at position i.
DigitRun(s, i, n) == i + n - 1 <= Len(s) /\ \A j \in i..(i + n - 1) : IsDigit(s[j])
Dot(s, i) == i <= Len(s) /\ s[i] = "."

\* The lengths each group of ^(\d{1,2})\.(\d{1,2})\.(\d{1,3})(.*) can take
\* from position i so that the rest of the pattern still matches; the last
\* group (.*) matches whatever follows.
PatchLens(s, i) == {n \in 1..3 : DigitRun(s, i, n)}
MinorLens(s, i) ==
    {n \in 1..2 : DigitRun(s, i, n) /\ Dot(s, i + n)
                    /\ PatchLens(s, i + n + 1) # {}}
MajorLens(s) ==
    {n \in 1..2 : DigitRun(s, 1, n) /\ Dot(s, 1 + n)
                    /\ MinorLens(s, n + 2) # {}}

\* A greedy quantifier takes the longest length that lets the match succeed.
Longest(S) == CHOOSE n \in S : \A m \in S : m <= n

\* version_re.match(s).groups()[0:3], or <<>> when there is no match.
version_re_match(s) ==
    IF MajorLens(s) = {} THEN <<>>
    ELSE LET a == Longest(MajorLens(s))
             b == Longest(MinorLens(s, a + 2))
             c == Longest(PatchLens(s, a + b + 3))
         IN  <<SubSeq(s, 1, a), SubSeq(s, a + 2, a + b + 1),
               SubSeq(s, a + b + 3, a + b + c + 2)>>

\* A mutant of TupleLess: a proper prefix counts as the greater tuple.
RECURSIVE TupleLess_prefix(_, _)
TupleLess_prefix(t, u) ==
    IF u = <<>> THEN t # <<>>
    ELSE IF t = <<>> THEN FALSE
    ELSE IF Head(t) # Head(u) THEN Head(t) < Head(u)
    ELSE TupleLess_prefix(Tail(t), Tail(u))

\* t < u for tuples of integers: the first differing item decides, and a
\* proper prefix is the smaller tuple.
RECURSIVE TupleLess(_, _)
TupleLess(t, u) ==
    IF t = <<>> THEN u # <<>>
    ELSE IF u = <<>> THEN FALSE
    ELSE IF Head(t) # Head(u) THEN Head(t) < Head(u)
    ELSE TupleLess(Tail(t), Tail(u))

post_init(o) ==
    LET match == version_re_match(o.version) IN
    IF match = <<>>
    THEN [o EXCEPT !.done = TRUE, !.exc = "InterfaceError",
                   !.msg = "Failed parsing MySQL version"]
    ELSE LET version == <<int(match[1]), int(match[2]), int(match[3])>> IN
         IF TupleLess(version, <<4, 1>>)
         THEN [o EXCEPT !.done = TRUE, !.exc = "InterfaceError",
                        !.msg = "MySQL Version is not supported"]
         ELSE [o EXCEPT !.done = TRUE, !.version_tuple = version]

InitServerInfo ==
    /\ cnx = NewConnection(FALSE, FALSE)
    /\ rc = RcIdle
    /\ ctor = NoCtor
    /\ attrs = NoAttrs
    /\ auth = NoAuth
    /\ \E n \in 0..MaxVerLen :
          \E v \in VersionStrings(n) : info = [NoInfo EXCEPT !.version = v]

PostInit ==
    /\ ~info.done
    /\ info' = post_init(info)
    /\ UNCHANGED <<cnx, rc, ctor, attrs, auth>>

NextServerInfo == PostInit

SpecServerInfo == InitServerInfo /\ [][NextServerInfo]_vars

(***************************************************************************)
(* The SHA-256 password plugins: the response to the server's challenge.   *)
(* A password and a message are sequences of bytes.                        *)
(***************************************************************************)
MaxPwLen == 4

PwBytes == {"s", "p", "a", "m"}
Passwords == UNION {[1..n -> PwBytes] : n \in 0..MaxPwLen}

NUL == "\\x00"
REQUEST_PUBLIC_KEY == "\\x01"

\* The password encrypted with the server's public key: a block of bytes
\* that depends on the password and holds none of its bytes.
rsa_encrypt(password) == [i \in 1..Len(password) |-> "#" \o password[i]]

\* A mutant of sha256_auth_response: the password is sent on every channel.
sha256_auth_response_plain(o) ==
    [o EXCEPT !.pc = "sent", !.sent = o.password \o <<NUL>>]

sha256_auth_response(o) ==
    IF o.ssl_enabled
    THEN [o EXCEPT !.pc = "sent", !.sent = o.password \o <<NUL>>]
    ELSE IF o.public_key
    THEN [o EXCEPT !.pc = "sent", !.sent = rsa_encrypt(o.password)]
    ELSE [o EXCEPT !.pc = "sent", !.sent = <<REQUEST_PUBLIC_KEY>>]

InitSha256 ==
    /\ cnx = NewConnection(FALSE, FALSE)
    /\ rc = RcIdle
    /\ ctor = NoCtor
    /\ attrs = NoAttrs
    /\ info = NoInfo
    /\ \E pw \in Passwords, ssl \in BOOLEAN, key \in BOOLEAN :
          auth = [pc |-> "plugin", password |-> pw, ssl_enabled |-> ssl,
                  public_key |-> key, sent |-> <<>>]

AuthResponse ==
    /\ auth.pc = "plugin"
    /\ auth' = sha256_auth_response(auth)
    /\ UNCHANGED <<cnx, rc, ctor, attrs, info>>

NextSha256 == AuthResponse

SpecSha256 == InitSha256 /\ [][NextSha256]_vars

(***************************************************************************)
(* The SASL/SCRAM plugin: the server's messages after the client-first     *)
(* message.  A server message has a Python type and, when it is text, the  *)
(* fields that its commas separate; a field has a key ("" when it has no   *)
(* "key=" prefix); the nonce of r= and the signature of v= are the        *)
(* expected ones or other ones.                                            *)
(***************************************************************************)
MaxFields == 3

ScramFields ==
    [key : {"r", "v"}, good : BOOLEAN] \cup [key : {"s", "i", ""}, good : {TRUE}]
FieldSeqs == UNION {[1..n -> ScramFields] : n \in 0..MaxFields}
ServerMessages ==
    {[type |-> t, fields |-> <<>>] : t \in {"None", "int"}}
    \cup {[type |-> t, fields |-> f] : t \in {"str", "bytes"}, f \in FieldSeqs}

HasField(m, k) == \E j \in 1..Len(m.fields) : m.fields[j].key = k
Field(m, k) ==
    m.fields[CHOOSE j \in 1..Len(m.fields) :
                 m.fields[j].key = k /\ \A h \in 1..(j - 1) : m.fields[h].key # k]

ScramError(o, call, m, message) ==
    [o EXCEPT !.call = call, !.msg = m, !.pc = "failed",
              !.exc = "InterfaceError", !.errmsg = message]

\* A mutant of auth_continue: the server's nonce is not compared.
auth_continue_anynonce(o, m) ==
    IF m.type # "bytes" \/ m.fields = <<>> \/ ~HasField(m, "r")
    THEN ScramError(o, "auth_continue", m, "Unexpected server message")
    ELSE IF ~HasField(m, "s") \/ ~HasField(m, "i")
    THEN ScramError(o, "auth_continue", m, "Incomplete reponse")
    ELSE [o EXCEPT !.call = "auth_continue", !.msg = m, !.pc = "continued"]

\* The server-first message: combined nonce r=, salt s=, iteration count i=.
auth_continue(o, m) ==
    IF m.type # "bytes" \/ m.fields = <<>> \/ ~HasField(m, "r")
    THEN ScramError(o, "auth_continue", m, "Unexpected server message")
    ELSE IF ~HasField(m, "s") \/ ~HasField(m, "i")
    THEN ScramError(o, "auth_continue", m, "Incomplete reponse")
    ELSE IF ~Field(m, "r").good
    THEN ScramError(o, "auth_continue", m, "Unable to authenticate")
    ELSE [o EXCEPT !.call = "auth_continue", !.msg = m, !.pc = "continued"]

\* The server's final message: v= and the server signature.
auth_finalize(o, m) ==
    IF m.type # "bytes" \/ m.fields = <<>> \/ m.fields[1].key # "v"
    THEN ScramError(o, "auth_finalize", m, "proof is not well formated")
    ELSE IF ~m.fields[1].good \/ o.pc # "continued"
    THEN ScramError(o, "auth_finalize", m, "Unable to proof server identity")
    ELSE [o EXCEPT !.call = "auth_finalize", !.msg = m, !.pc = "authenticated"]

InitScram ==
    /\ cnx = NewConnection(FALSE, FALSE)
    /\ rc = RcIdle
    /\ ctor = NoCtor
    /\ attrs = NoAttrs
    /\ info = NoInfo
    /\ \E mech \in {"SCRAM-SHA-1", "SCRAM-SHA-256"} :
          auth = [pc |-> "first", mechanism |-> mech, call |-> "",
                  msg |-> [type |-> "None", fields |-> <<>>],
                  exc |-> "", errmsg |-> ""]

AuthContinue ==
    /\ auth.pc = "first"
    /\ \E m \in ServerMessages : auth' = auth_continue(auth, m)
    /\ UNCHANGED <<cnx, rc, ctor, attrs, info>>

AuthFinalize ==
    /\ auth.pc \in {"first", "continued"}
    /\ \E m \in ServerMessages : auth' = auth_finalize(auth, m)
    /\ UNCHANGED <<cnx, rc, ctor, attrs, info>>

NextScram ==
    \/ AuthContinue
    \/ AuthFinalize

SpecScram == InitScram /\ [][NextScram]_vars

(***************************************************************************)
(* The authenticator during connect: multi-factor accounts and plugin      *)
(* switches.  perm holds, for password, password1, password2 and           *)
(* password3, "True" for the valid password, "False" for an invalid one    *)
(* and "None" for a password not given, as the tests name them.            *)
(***************************************************************************)
MFA_FACTORS == 3
MAX_PLUGIN_SWITCHES == 2

PasswordKinds == {"True", "False", "None"}
PasswordPermutations == [1..4 -> PasswordKinds]
AuthPlugins == {"mysql_clear_password", "caching_sha2_password"}

\* A mutant of factor_password: the first factor is always `password`.
factor_password_plain(perm, factor) ==
    IF factor = 1 THEN perm[1] ELSE perm[factor + 1]

\* The password the client sends for a factor: the first factor takes
\* password1 when it is given and password otherwise.
factor_password(perm, factor) ==
    IF factor = 1
    THEN IF perm[2] # "None" THEN perm[2] ELSE perm[1]
    ELSE perm[factor + 1]

authenticate(o) ==
    [o EXCEPT !.pc = "await", !.factor = 1, !.sent = factor_password(o.perm, 1)]

\* The server accepts the last factor the account requires.
auth_ok(o) == [o EXCEPT !.pc = "ok", !.session = TRUE]

\* The server accepts a factor and demands the next one.
auth_next_factor(o) ==
    [o EXCEPT !.factor = o.factor + 1,
              !.sent = factor_password(o.perm, o.factor + 1)]

\* The server rejects the password of a factor.
auth_denied(o) ==
    [o EXCEPT !.pc = "failed", !.exc = "ProgrammingError",
              !.errmsg = "Access denied"]

\* A mutant of auth_switch: every switch request is followed.
auth_switch_unbounded(o, new_plugin) == [o EXCEPT !.plugin = new_plugin]

\* The server asks for another plugin for the factor at hand.
auth_switch(o, new_plugin) ==
    IF o.switches < MAX_PLUGIN_SWITCHES
    THEN [o EXCEPT !.plugin = new_plugin, !.switches = o.switches + 1]
    ELSE [o EXCEPT !.pc = "failed", !.exc = "InterfaceError",
                   !.errmsg = "Too many authentication plugin switches"]

InitMfa ==
    /\ cnx = NewConnection(FALSE, FALSE)
    /\ rc = RcIdle
    /\ ctor = NoCtor
    /\ attrs = NoAttrs
    /\ info = NoInfo
    /\ \E n \in 1..MFA_FACTORS, perm \in PasswordPermutations, plugin \in AuthPlugins :
          auth = [pc |-> "start", factors |-> n, perm |-> perm,
                  plugin |-> plugin, factor |-> 0, sent |-> "None",
                  switches |-> 0, session |-> FALSE, exc |-> "",
                  errmsg |-> ""]

Authenticate ==
    /\ auth.pc = "start"
    /\ auth' = authenticate(auth)
    /\ UNCHANGED <<cnx, rc, ctor, attrs, info>>

ServerOk ==
    /\ auth.pc = "await"
    /\ auth.sent = "True"
    /\ auth.factor = auth.factors
    /\ auth' = auth_ok(auth)
    /\ UNCHANGED <<cnx, rc, ctor, attrs, info>>

AuthNextFactor ==
    /\ auth.pc = "await"
    /\ auth.sent = "True"
    /\ auth.factor < auth.factors
    /\ auth' = auth_next_factor(auth)
    /\ UNCHANGED <<cnx, rc, ctor, attrs, info>>

ServerErr ==
    /\ auth.pc = "await"
    /\ auth.sent # "True"
    /\ auth' = auth_denied(auth)
    /\ UNCHANGED <<cnx, rc, ctor, attrs, info>>

AuthSwitch ==
    /\ auth.pc = "await"
    /\ \E new_plugin \in AuthPlugins \ {auth.plugin} :
          auth' = auth_switch(auth, new_plugin)
    /\ UNCHANGED <<cnx, rc, ctor, attrs, info>>

NextMfa ==
    \/ Authenticate
    \/ ServerOk
    \/ AuthNextFactor
    \/ ServerErr
    \/ AuthSwitch

SpecMfa == InitMfa /\ [][NextMfa]_vars

\* The server answers every message of the client, and the client every
\* message of the server.
FairSpecMfa == SpecMfa /\ WF_vars(NextMfa)

(***************************************************************************)
(* The query attributes and the cursors of one connection.  The query      *)
(* attributes are a dict, here the sequence of its entries in the order    *)
(* they were added.  _cursors is a WeakSet: it holds a cursor only as long *)
(* as the cursor object exists.  A cursor object is "unborn", "held" by    *)
(* the caller, "dropped" by the caller and not yet collected, or           *)
(* "collected"; closed holds the cursors on which remove_cursor has run.   *)
(***************************************************************************)
AttrNames == {"a", "b"}
AttrValues == {"x", "y"}

\* The connection as __init__ leaves it, held by its caller.
NewRegistry ==
    [query_attrs |-> <<>>, cursors |-> {},
     objects |-> [c \in Cursors |-> "unborn"], closed |-> {},
     held |-> TRUE, alive |-> TRUE,
     call |-> [op |-> "__init__", cursor |-> 0, name |-> "", value |-> "",
               result |-> <<>>, exc |-> ""]]

Observe(c, op, cursor, name, value, result, exc) ==
    [c EXCEPT !.call = [op |-> op, cursor |-> cursor, name |-> name,
                        value |-> value, result |-> result, exc |-> exc]]

\* attr_name in self._query_attrs
HasAttr(query_attrs, name) ==
    \E i \in 1..Len(query_attrs) : query_attrs[i].name = name

\* A mutant of query_attrs_append: the value of a name already present is
\* replaced.
query_attrs_append_overwrite(query_attrs, name, value) ==
    IF HasAttr(query_attrs, name)
    THEN [i \in 1..Len(query_attrs) |->
             IF query_attrs[i].name = name
             THEN [name |-> name, value |-> value] ELSE query_attrs[i]]
    ELSE Append(query_attrs, [name |-> name, value |-> value])

query_attrs_append(query_attrs, name, value) ==
    IF HasAttr(query_attrs, name) THEN query_attrs
    ELSE Append(query_attrs, [name |-> name, value |-> value])

\* dict.pop(name, None): the dict left and the value returned
query_attrs_remove(query_attrs, name) ==
    [left |-> SelectSeq(query_attrs, LAMBDA e : e.name # name),
     value |-> IF HasAttr(query_attrs, name)
               THEN (CHOOSE e \in Range(query_attrs) : e.name = name).value
               ELSE "None"]

query_attrs_clear(query_attrs) == <<>>

\* The cursor objects that exist, and the connection they refer to.
Existing(c) == {k \in Cursors : c.objects[k] \in {"held", "dropped"}}

\* A mutant of add_cursor: the cursor is not registered.
add_cursor_nothing(cursors, cursor) == cursors
add_cursor(cursors, cursor) == cursors \cup {cursor}

QueryAttrsAppend ==
    /\ cnx.alive /\ cnx.held
    /\ \E name \in AttrNames, value \in AttrValues :
          cnx' = Observe([cnx EXCEPT !.query_attrs =
                                  query_attrs_append(@, name, value)],
                         "query_attrs_append", 0, name, value, <<>>, "")
    /\ UNCHANGED <<rc, ctor, attrs, info, auth>>

\* MySQLCursorAbstract.__init__
NewCursor ==
    /\ cnx.alive /\ cnx.held
    /\ \E k \in Cursors :
          /\ cnx.objects[k] = "unborn"
          /\ cnx' = Observe([cnx EXCEPT !.objects[k] = "held",
                                        !.cursors = add_cursor(@, k)],
                            "cursor", k, "", "", <<>>, "")
    /\ UNCHANGED <<rc, ctor, attrs, info, auth>>

\* remove_cursor, called when the cursor is closed; WeakSet.remove raises
\* KeyError for a cursor that is not in the set.
RemoveCursor ==
    /\ cnx.alive
    /\ \E k \in Cursors :
          /\ cnx.objects[k] = "held"
          /\ cnx' = IF k \in cnx.cursors
                    THEN Observe([cnx EXCEPT !.cursors = @ \ {k},
                                             !.closed = @ \cup {k}],
                                 "remove_cursor", k, "", "", <<>>, "")
                    ELSE Observe(cnx, "remove_cursor", k, "", "", <<>>,
                                 "KeyError")
    /\ UNCHANGED <<rc, ctor, attrs, info, auth>>

GetAttributes ==
    /\ \E k \in Cursors :
          /\ cnx.objects[k] = "held"
          /\ cnx' = Observe(cnx, "get_attributes", k, "", "",
                            cnx.query_attrs, "")
    /\ UNCHANGED <<rc, ctor, attrs, info, auth>>

\* add_attribute: the name is a str, the value None or of a MySQL type
\* ("object" is a value of no such type).
AddAttribute ==
    /\ \E k \in Cursors, name \in AttrNames \cup {"5"},
          value \in AttrValues \cup {"object"} :
          /\ cnx.objects[k] = "held"
          /\ cnx' = IF name = "5" \/ value = "object"
                    THEN Observe(cnx, "add_attribute", k, name, value, <<>>,
                                 "ProgrammingError")
                    ELSE Observe([cnx EXCEPT !.query_attrs =
                                      query_attrs_append(@, name, value)],
                                 "add_attribute", k, name, value, <<>>, "")
    /\ UNCHANGED <<rc, ctor, attrs, info, auth>>

RemoveAttribute ==
    /\ \E k \in Cursors, name \in AttrNames :
          /\ cnx.objects[k] = "held"
          /\ cnx' = Observe([cnx EXCEPT !.query_attrs =
                                  query_attrs_remove(@, name).left],
                            "remove_attribute", k, name,
                            query_attrs_remove(cnx.query_attrs, name).value,
                            <<>>, "")
    /\ UNCHANGED <<rc, ctor, attrs, info, auth>>

ClearAttributes ==
    /\ \E k \in Cursors :
          /\ cnx.objects[k] = "held"
          /\ cnx' = Observe([cnx EXCEPT !.query_attrs = query_attrs_clear(@)],
                            "clear_attributes", k, "", "", <<>>, "")
    /\ UNCHANGED <<rc, ctor, attrs, info, auth>>

\* The caller lets go of its last reference to a cursor, or to the
\* connection.
DropCursor ==
    /\ \E k \in Cursors :
          /\ cnx.objects[k] = "held"
          /\ cnx' = Observe([cnx EXCEPT !.objects[k] = "dropped"],
                            "drop", k, "", "", <<>>, "")
    /\ UNCHANGED <<rc, ctor, attrs, info, auth>>

DropConnection ==
    /\ cnx.held
    /\ cnx' = Observe([cnx EXCEPT !.held = FALSE], "drop", 0, "", "", <<>>, "")
    /\ UNCHANGED <<rc, ctor, attrs, info, auth>>

\* The interpreter frees an object nothing refers to: a dropped cursor
\* leaves the WeakSet, a connection goes when neither the caller nor a
\* cursor (self._connection) refers to it.
CollectCursor ==
    /\ \E k \in Cursors :
          /\ cnx.objects[k] = "dropped"
          /\ cnx' = Observe([cnx EXCEPT !.objects[k] = "collected",
                                        !.cursors = @ \ {k}],
                            "collect", k, "", "", <<>>, "")
    /\ UNCHANGED <<rc, ctor, attrs, info, auth>>

CollectConnection ==
    /\ cnx.alive
    /\ ~cnx.held
    /\ Existing(cnx) = {}
    /\ cnx' = Observe([cnx EXCEPT !.alive = FALSE], "collect", 0, "", "",
                      <<>>, "")
    /\ UNCHANGED <<rc, ctor, attrs, info, auth>>

InitRegistry ==
    /\ cnx = NewRegistry
    /\ rc = RcIdle
    /\ ctor = NoCtor
    /\ attrs = NoAttrs
    /\ info = NoInfo
    /\ auth = NoAuth

Collecting == CollectCursor \/ CollectConnection

NextRegistry ==
    \/ QueryAttrsAppend
    \/ NewCursor
    \/ RemoveCursor
    \/ GetAttributes
    \/ AddAttribute
    \/ RemoveAttribute
    \/ ClearAttributes
    \/ DropCursor
    \/ DropConnection
    \/ CollectCursor
    \/ CollectConnection

SpecRegistry == InitRegistry /\ [][NextRegistry]_vars
FairSpecRegistry == SpecRegistry /\ WF_vars(Collecting)

(***************************************************************************)
(* set_client_flags and isset_client_flag called on a connection whose     *)
(* flags are any int of the range: cnx holds the flags and the call that   *)
(* has just returned, until the caller has taken its result.               *)
(***************************************************************************)
MaxFlagEntries == 2

\* The entries of a list of flags: 0, a flag, two flags ORed, and the
\* negatives of these.
FlagMasks ==
    {Pow2(i) : i \in 0..(MaxFlagBits - 1)} \cup {BitOr(LOCAL_FILES, COMPRESS)}

FlagEntries == {0} \cup FlagMasks \cup {0 - mask : mask \in FlagMasks}

FlagLists(n) == UNION {[1..k -> FlagEntries] : k \in 0..n}

FlagArgs(n) ==
    {PyInt(i) : i \in FlagInts}
    \cup {PyList(l) : l \in FlagLists(n)}
    \cup {PyTuple(l) : l \in FlagLists(n)}
    \cup {PyNone, PyTrue, PyFalse, PyStr(<<"1">>), PySet(<<1>>), PySet(<<>>)}

NoFlagsCall ==
    [op |-> "", arg |-> PyNone, flag |-> 0, result |-> PyNone, exc |-> ""]

InitFlags ==
    /\ \E f \in FlagInts : cnx = [client_flags |-> f, call |-> NoFlagsCall]
    /\ rc = RcIdle
    /\ ctor = NoCtor
    /\ attrs = NoAttrs
    /\ info = NoInfo
    /\ auth = NoAuth

SetClientFlags ==
    /\ cnx.call.op = ""
    /\ \E flags \in FlagArgs(MaxFlagEntries) :
         LET r == set_client_flags(cnx.client_flags, flags) IN
         cnx' = [client_flags |-> r.client_flags,
                 call |-> [op |-> "set_client_flags", arg |-> flags,
                           flag |-> 0,
                           result |-> IF r.exc = "" THEN PyInt(r.client_flags)
                                      ELSE PyNone,
                           exc |-> r.exc]]
    /\ UNCHANGED <<rc, ctor, attrs, info, auth>>

IssetClientFlag ==
    /\ cnx.call.op = ""
    /\ \E flag \in 1..(Pow2(MaxFlagBits) - 1) :
         cnx' = [cnx EXCEPT !.call =
                     [op |-> "isset_client_flag", arg |-> PyNone,
                      flag |-> flag,
                      result |-> IF isset_client_flag(cnx.client_flags, flag)
                                 THEN PyTrue ELSE PyFalse,
                      exc |-> ""]]
    /\ UNCHANGED <<rc, ctor, attrs, info, auth>>

\* The caller takes the result of the call.
FlagsReturn ==
    /\ cnx.call.op # ""
    /\ cnx' = [cnx EXCEPT !.call = NoFlagsCall]
    /\ UNCHANGED <<rc, ctor, attrs, info, auth>>

NextFlags == SetClientFlags \/ IssetClientFlag \/ FlagsReturn

SpecFlags == InitFlags /\ [][NextFlags]_vars

(***************************************************************************)
(* The session settings: set_autocommit, set_time_zone, set_sql_mode,      *)
(* set_charset_collation and _post_connection.  cnx holds the recorded     *)
(* settings, the commands the call has sent to the server (sent, each the  *)
(* pieces of its text) and the call, until the caller has taken its        *)
(* outcome.  The answer of the server to each command is an input.         *)
(***************************************************************************)
\* The character sets of charsets: id, name, collation, and whether the
\* collation is the default one of the name.
Charset(charset_id, name, collation, is_default) ==
    [charset_id |-> charset_id, name |-> name, collation |-> collation,
     is_default |-> is_default]

CharsetTable ==
    {Charset(8, <<"latin1">>, <<"latin1_swedish_ci">>, TRUE),
     Charset(48, <<"latin1">>, <<"latin1_general_ci">>, FALSE),
     Charset(255, <<"utf8mb4">>, <<"utf8mb4_0900_ai_ci">>, TRUE)}

NoCharset == Charset(0, <<>>, <<>>, FALSE)

\* A lookup raises ProgrammingError when no character set matches.
Lookup(found) ==
    IF found = {} THEN [exc |-> "ProgrammingError", charset |-> NoCharset]
    ELSE [exc |-> "", charset |-> CHOOSE c \in found : TRUE]

get_by_id(charset_id) ==
    Lookup({c \in CharsetTable : c.charset_id = charset_id})

get_by_name(name) ==
    Lookup({c \in CharsetTable : c.name = name /\ c.is_default})

get_by_name_and_collation(name, collation) ==
    Lookup({c \in CharsetTable : c.name = name /\ c.collation = collation})

get_by_collation(collation) ==
    Lookup({c \in CharsetTable : c.collation = collation})

\* DEFAULT_CONFIGURATION["charset"]
DefaultCharsetName == <<"utf8mb4">>

\* The text of a value inside an f-string.
Format(v) ==
    CASE v.kind = "None" -> <<"None">>
      [] v.kind = "str" -> v.chars
      [] v.kind = "bool" -> IF v.num = 1 THEN <<"True">> ELSE <<"False">>
      [] OTHER -> <<"?">>

\* await self.cmd_query(text): the command is sent; it raises when the
\* server answers with an error.
send_query(c, text, ok) ==
    [c EXCEPT !.sent = Append(@, text),
              !.exc = IF ok THEN @ ELSE "Error"]

set_autocommit(c, value, ok) ==
    LET switch == IF Truthy(value) THEN "ON" ELSE "OFF"
        q == send_query(c, <<"SET @@session.autocommit = ", switch>>, ok)
    IN  IF q.exc # "" THEN q ELSE [q EXCEPT !.autocommit = value]

set_time_zone(c, value, ok) ==
    LET q == send_query(c, <<"SET @@session.time_zone = '">> \o Format(value)
                           \o <<"'">>, ok)
    IN  IF q.exc # "" THEN q ELSE [q EXCEPT !.time_zone = value]

set_sql_mode(c, given, ok) ==
    LET value == IF given.kind \in {"list", "tuple"}
                 THEN PyStr(Join(given.items, FALSE))
                 ELSE given
        q == send_query(c, <<"SET @@session.sql_mode = '">> \o Format(value)
                           \o <<"'">>, ok)
    IN  IF q.exc # "" THEN q ELSE [q EXCEPT !.sql_mode = value]

\* The character set that set_charset_collation looks up for its arguments.
find_charset(charset, collation) ==
    IF Truthy(charset) /\ Truthy(collation)
    THEN LET by_id == get_by_id(charset.num) IN
         IF charset.kind = "int"
         THEN IF by_id.exc # "" THEN by_id
              ELSE get_by_name_and_collation(by_id.charset.name,
                                             collation.chars)
         ELSE get_by_name_and_collation(charset.chars, collation.chars)
    ELSE IF Truthy(charset)
    THEN IF charset.kind = "int" THEN get_by_id(charset.num)
         ELSE get_by_name(charset.chars)
    ELSE IF Truthy(collation)
    THEN get_by_collation(collation.chars)
    ELSE get_by_name(DefaultCharsetName)

\* self._charset, self._charset_name and self._charset_collation of the
\* character set found; a failing lookup raises.
record_charset(c, found) ==
    IF found.exc # "" THEN [c EXCEPT !.exc = found.exc]
    ELSE [c EXCEPT !.charset = found.charset,
                   !.charset_name = found.charset.name,
                   !.charset_collation = found.charset.collation]

\* The SET NAMES command of the recorded character set.
set_names(c, ok) ==
    IF c.exc # "" THEN c
    ELSE send_query(c, <<"SET NAMES '">> \o c.charset.name
                       \o <<"' COLLATE '">> \o c.charset.collation
                       \o <<"'">>, ok)

\* set_charset_collation: the character set is recorded, then the command
\* is sent.
set_charset_collation(c, charset, collation, ok) ==
    IF charset.kind \notin {"int", "str", "None"}
       \/ collation.kind \notin {"str", "None"}
    THEN [c EXCEPT !.exc = "ValueError"]
    ELSE set_names(record_charset(c, find_charset(charset, collation)), ok)

\* self._execute_query(self._init_command)
execute_query(c, query, ok) == send_query(c, Format(query), ok)

\* The five steps of _post_connection; a step is skipped once an earlier
\* one has raised.
post_charset(c, oks) ==
    set_charset_collation(c, PyInt(c.charset.charset_id), PyNone, oks[1])

post_autocommit(c, oks) ==
    IF c.exc # "" THEN c ELSE set_autocommit(c, c.autocommit, oks[2])

post_time_zone(c, oks) ==
    IF c.exc # "" \/ ~Truthy(c.time_zone) THEN c
    ELSE set_time_zone(c, c.time_zone, oks[3])

post_sql_mode(c, oks) ==
    IF c.exc # "" \/ ~Truthy(c.sql_mode) THEN c
    ELSE set_sql_mode(c, c.sql_mode, oks[4])

post_init_command(c, oks) ==
    IF c.exc # "" \/ ~Truthy(c.init_command) THEN c
    ELSE execute_query(c, c.init_command, oks[5])

\* A mutant of _post_connection: the SQL mode is set before the time zone.
post_connection_commands_swapped(c, oks) ==
    post_init_command(
        post_time_zone(
            post_sql_mode(post_autocommit(post_charset(c, oks), oks), oks),
            oks),
        oks)

\* _post_connection: oks[i] tells whether the server accepts the i-th of
\* the five commands.
post_connection_commands(c, oks) ==
    post_init_command(
        post_sql_mode(
            post_time_zone(post_autocommit(post_charset(c, oks), oks), oks),
            oks),
        oks)

NoSessionCall == [op |-> "", args |-> <<>>, oks |-> <<>>]

\* The connection after the handshake: the settings are the arguments of
\* the constructor, the character set is the one of the handshake.
NewSession(autocommit, time_zone, sql_mode, init_command, charset) ==
    [autocommit |-> autocommit, time_zone |-> time_zone,
     sql_mode |-> sql_mode, init_command |-> init_command,
     charset |-> charset, charset_name |-> charset.name,
     charset_collation |-> charset.collation,
     sent |-> <<>>, exc |-> "", call |-> NoSessionCall]

TimeZoneValues == {PyNone, PyStr(<<>>), PyStr(<<"+00:00">>)}
SqlModeValues == {PyNone, PyStr(<<>>), PyStr(<<"ANSI">>)}
InitCommandValues == {PyNone, PyStr(<<>>), PyStr(<<"SET @x = 1">>)}
SqlModeArgs ==
    {PyStr(<<"ANSI">>), PyStr(<<>>), PyList(<<"ANSI", "TRADITIONAL">>),
     PyTuple(<<"TRADITIONAL">>)}
CharsetArgs ==
    {PyNone, PyInt(8), PyInt(0), PyInt(99), PyStr(<<"latin1">>),
     PyStr(<<"bogus">>), PyList(<<>>)}
CollationArgs ==
    {PyNone, PyStr(<<"latin1_general_ci">>), PyStr(<<"utf8mb4_0900_ai_ci">>),
     PyInt(1)}

InitSession ==
    /\ \E autocommit \in {PyTrue, PyFalse}, time_zone \in TimeZoneValues,
          sql_mode \in SqlModeValues, init_command \in InitCommandValues,
          charset \in CharsetTable :
          cnx = NewSession(autocommit, time_zone, sql_mode, init_command,
                           charset)
    /\ rc = RcIdle
    /\ ctor = NoCtor
    /\ attrs = NoAttrs
    /\ info = NoInfo
    /\ auth = NoAuth

Called(c, op, args, oks) ==
    [c EXCEPT !.call = [op |-> op, args |-> args, oks |-> oks]]

SetAutocommit ==
    /\ cnx.call.op = ""
    /\ \E value \in {PyTrue, PyFalse}, ok \in BOOLEAN :
          cnx' = Called(set_autocommit(cnx, value, ok), "set_autocommit",
                        <<value>>, <<ok>>)
    /\ UNCHANGED <<rc, ctor, attrs, info, auth>>

SetTimeZone ==
    /\ cnx.call.op = ""
    /\ \E value \in TimeZoneValues \cup {PyStr(<<"UTC">>)}, ok \in BOOLEAN :
          cnx' = Called(set_time_zone(cnx, value, ok), "set_time_zone",
                        <<value>>, <<ok>>)
    /\ UNCHANGED <<rc, ctor, attrs, info, auth>>

SetSqlMode ==
    /\ cnx.call.op = ""
    /\ \E value \in SqlModeArgs, ok \in BOOLEAN :
          cnx' = Called(set_sql_mode(cnx, value, ok), "set_sql_mode",
                        <<value>>, <<ok>>)
    /\ UNCHANGED <<rc, ctor, attrs, info, auth>>

SetCharsetCollation ==
    /\ cnx.call.op = ""
    /\ \E charset \in CharsetArgs, collation \in CollationArgs,
          ok \in BOOLEAN :
          cnx' = Called(set_charset_collation(cnx, charset, collation, ok),
                        "set_charset_collation", <<charset, collation>>,
                        <<ok>>)
    /\ UNCHANGED <<rc, ctor, attrs, info, auth>>

PostConnection ==
    /\ cnx.call.op = ""
    /\ \E oks \in [1..5 -> BOOLEAN] :
          cnx' = Called(post_connection_commands(cnx, oks),
                        "_post_connection", <<>>, oks)
    /\ UNCHANGED <<rc, ctor, attrs, info, auth>>

\* The caller takes the outcome of the call.
SessionReturn ==
    /\ cnx.call.op # ""
    /\ cnx' = [cnx EXCEPT !.call = NoSessionCall, !.sent = <<>>, !.exc = ""]
    /\ UNCHANGED <<rc, ctor, attrs, info, auth>>

NextSession ==
    \/ SetAutocommit
    \/ SetTimeZone
    \/ SetSqlMode
    \/ SetCharsetCollation
    \/ PostConnection
    \/ SessionReturn

SpecSession == InitSession /\ [][NextSession]_vars

(***************************************************************************)
(* The unread-result gate.                                                 *)
(***************************************************************************)

\* C1: handle_unread_result with consume_results off and unread_result true
\* raises InternalError('Unread result found'), reads nothing and leaves
\* unread_result true; with unread_result false it returns without error and
\* reads nothing.
C1_UnreadResultRaises ==
    cnx.op = "handle_unread_result" =>
        /\ (~cnx.pre_consume /\ cnx.pre_unread =>
               /\ cnx.exc = "InternalError"
               /\ cnx.msg = "Unread result found"
               /\ cnx.log = <<>>
               /\ cnx.unread_result)
        /\ (~cnx.pre_unread =>
               /\ cnx.exc = ""
               /\ cnx.log = <<>>
               /\ ~cnx.unread_result)

C1_Witness ==
    /\ cnx.op = "handle_unread_result"
    /\ ~cnx.pre_consume
    /\ cnx.pre_unread
    /\ cnx.exc = "InternalError"
    /\ HasPending(cnx)

\* C2: with consume_results on and a result unread, handle_unread_result
\* drains the result with get_rows and raises nothing, unread_result is
\* false when it returns, and a command that passes the gate is sent only
\* after the drain.
C2_AutoConsumeDrainsFirst ==
    /\ cnx.op = "handle_unread_result" /\ cnx.pre_consume /\ cnx.pre_unread =>
          /\ cnx.exc = ""
          /\ cnx.log = <<"get_rows">>
          /\ ~cnx.unread_result
    /\ (cnx.op = "execute" /\ cnx.pre_state = "Ready"
           /\ cnx.pre_consume /\ cnx.pre_unread) =>
          /\ cnx.exc = ""
          /\ ~cnx.post_handle
          /\ Len(cnx.log) >= 2
          /\ cnx.log[1] = "get_rows"
          /\ cnx.log[2] = "send"

C2_Witness ==
    /\ cnx.op = "execute"
    /\ cnx.pre_state = "Ready"
    /\ cnx.pre_consume
    /\ cnx.pre_unread
    /\ cnx.log = <<"get_rows", "send">>
    /\ cnx.unread_result

\* C3 (as claimed): in every reachable state at most one cursor has an
\* unread result set pending, whatever the cursors execute, fetch and assign
\* to unread_result.
C3_AtMostOnePending == Cardinality(PendingCursors(cnx)) <= 1

\* C3 (amended): at most one cursor has an unread result set pending as long
\* as no caller has assigned False to unread_result while a cursor held an
\* unread result set.
C3_AtMostOnePendingUnlessCleared ==
    ~cnx.cleared => Cardinality(PendingCursors(cnx)) <= 1

C3_Witness ==
    /\ ~cnx.cleared
    /\ cnx.op = "execute"
    /\ cnx.exc = "InternalError"
    /\ Cardinality(PendingCursors(cnx)) = 1

(***************************************************************************)
(* Connection life cycle.                                                  *)
(***************************************************************************)

\* C7: close/disconnect never raises, whatever the state it is called in and
\* also when QUIT fails; after it the connection is Closed with the socket
\* released; a call that follows another close changes no field.
C7_CloseNeverRaises ==
    [][/\ (cnx'.op = "close" =>
              /\ cnx'.exc = ""
              /\ cnx'.state = "Closed"
              /\ cnx'.socket = "none")
       /\ (cnx.op = "close" /\ cnx'.op = "close" =>
              Fields(cnx') = Fields(cnx))]_vars

C7_Witness ==
    /\ cnx.op = "close"
    /\ cnx.pre_state \in {"Handshaking", "Authenticating", "Ready"}
    /\ cnx.log = <<"quit_failed", "close_socket">>
    /\ cnx.state = "Closed"

\* C8: when a step of connect fails (open, greeting, TLS upgrade,
\* authentication or post-connection setup), the connection is Closed and
\* the transport released; no connect is left running.
C8_ConnectFailureCloses ==
    cnx.op = "connect" /\ cnx.exc # "" =>
        /\ cnx.state = "Closed"
        /\ cnx.socket = "none"
        /\ cnx.step = 0

C8_Witness ==
    /\ cnx.op = "connect"
    /\ cnx.exc # ""
    /\ cnx.log = <<"post">>
    /\ cnx.pre_state = "Authenticating"
    /\ cnx.state = "Closed"


(***************************************************************************)
(* reconnect.                                                              *)
(***************************************************************************)
Count(seq, x) == Cardinality({i \in 1..Len(seq) : seq[i] = x})

CaughtRaise(t) == t.out = "raise" /\ t.class \in CaughtClasses

\* C4: when the first k-1 attempts raise Error or IOError and on attempt k
\* connect succeeds and is_connected answers true (1 <= k <= attempts),
\* reconnect returns normally after exactly k disconnect/connect attempts.
C4_ReconnectReturnsAtFirstLive ==
    LET k == Len(rc.tries)
    IN  (/\ k >= 1
         /\ rc.attempts >= 1
         /\ rc.tries[k].out = "live"
         /\ \A i \in 1..(k - 1) : CaughtRaise(rc.tries[i])) =>
            /\ rc.pc = "returned"
            /\ rc.exc = ""
            /\ k <= rc.attempts
            /\ rc.counter = k
            /\ Count(rc.log, "disconnect") = k
            /\ Count(rc.log, "connect") = k
            /\ Count(rc.log, "is_connected") = 1

C4_Witness ==
    /\ rc.pc = "returned"
    /\ rc.attempts = 3
    /\ Len(rc.tries) = 3
    /\ CaughtRaise(rc.tries[1])
    /\ CaughtRaise(rc.tries[2])
    /\ rc.tries[3].out = "live"
    /\ rc.counter = 3

\* C5: when every attempt raises Error or IOError, reconnect(attempts = n),
\* n >= 1, goes on after each of the first n-1 errors, and after the n-th
\* attempt raises InterfaceError whose message embeds the message of the
\* n-th error and whose cause is that error.
C5_ReconnectRaisesLastError ==
    LET k == Len(rc.tries)
    IN  (/\ k >= 1
         /\ rc.attempts >= 1
         /\ \A i \in 1..k : CaughtRaise(rc.tries[i])) =>
            /\ k <= rc.attempts
            /\ rc.pc # "returned"
            /\ (k < rc.attempts => rc.pc # "raised")
            /\ (k = rc.attempts => rc.pc \in {"except", "raised"})
            /\ (rc.pc = "raised" =>
                   /\ rc.counter = rc.attempts
                   /\ Count(rc.log, "disconnect") = rc.attempts
                   /\ Count(rc.log, "connect") = rc.attempts
                   /\ rc.exc = "InterfaceError"
                   /\ rc.msg = ReconnectMessage(rc.attempts, rc.tries[k].msg)
                   /\ rc.cause = rc.tries[k].msg)

C5_Witness ==
    /\ rc.pc = "raised"
    /\ rc.exc = "InterfaceError"
    /\ rc.attempts = 3
    /\ Len(rc.tries) = 3
    /\ \A i \in 1..3 : CaughtRaise(rc.tries[i])
    /\ rc.tries[1].msg = "e1"
    /\ rc.tries[3].msg = "e2"
    /\ rc.cause = "e2"

\* C6: reconnect returns normally only when the connection is live: when all
\* attempts are used up without is_connected having answered true,
\* reconnect raises InterfaceError.
C6_ReturnsOnlyWhenLive ==
    rc.pc = "returned" /\ rc.attempts >= 1 => rc.live


(***************************************************************************)
(* Construction.                                                           *)
(***************************************************************************)

Bracketed(v) ==
    v.kind = "str" /\ v.chars # <<>> /\ Head(v.chars) = "["
    /\ v.chars[Len(v.chars)] = "]"

\* An invalid tls_versions value: a list that holds only unknown or only
\* deprecated names, a list with a duplicate, or a value that is not a
\* list, a set or a bracketed string (None stands for an option not given).
InvalidTlsVersions(v) ==
    \/ /\ v.kind = "list"
       /\ v.items # <<>>
       /\ \/ \A i \in 1..Len(v.items) :
                v.items[i] \notin Range(TLS_VERSIONS)
                /\ v.items[i] \notin Range(DEPRECATED_TLS_VERSIONS)
          \/ \A i \in 1..Len(v.items) :
                v.items[i] \in Range(DEPRECATED_TLS_VERSIONS)
          \/ Cardinality(Range(v.items)) < Len(v.items)
    \/ v.kind \notin {"list", "set", "str", "None"}
    \/ v.kind = "str" /\ ~Bracketed(v)

\* C9: every invalid tls_versions option makes construction fail, whether
\* or not ssl_ca, ssl_cert or ssl_key are given.
C9_InvalidTlsVersionsRejected ==
    ctor.done /\ InvalidTlsVersions(ctor.given) => ctor.exc # ""


\* C10: two connections constructed without a conn_attrs argument do not
\* share their connection-attribute map: no step, which adds attributes to
\* the map of the connection it constructs, changes the map an earlier
\* connection constructed without conn_attrs sees.
C10_AttrMapsNotShared ==
    [][\A i \in 1..Len(attrs.ref) :
          attrs.by_default[i] => ConnAttrs(attrs', i) = ConnAttrs(attrs, i)]_vars

(***************************************************************************)
(* The server version.                                                     *)
(***************************************************************************)
\* s starts with a digits, '.', b digits, '.', c digits.
StartsWithVersion(s, a, b, c) ==
    /\ a + b + c + 2 <= Len(s)
    /\ \A j \in 1..a : IsDigit(s[j])
    /\ s[a + 1] = "."
    /\ \A j \in (a + 2)..(a + b + 1) : IsDigit(s[j])
    /\ s[a + b + 2] = "."
    /\ \A j \in (a + b + 3)..(a + b + c + 2) : IsDigit(s[j])

VersionShapes(s) ==
    {t \in (1..2) \X (1..2) \X (1..3) : StartsWithVersion(s, t[1], t[2], t[3])}

\* The number written by the n digits of s from position i.
RECURSIVE Decimal(_, _, _)
Decimal(s, i, n) ==
    IF n = 0 THEN 0
    ELSE 10 * Decimal(s, i, n - 1) + DigitValue(s[i + n - 1])

\* The triple a version string of the accepted shape names; its patch is the
\* longest run of up to three digits.
VersionTriple(s) ==
    LET t == CHOOSE t \in VersionShapes(s) :
                 \A u \in VersionShapes(s) : u[3] <= t[3]
    IN  <<Decimal(s, 1, t[1]), Decimal(s, t[1] + 2, t[2]),
          Decimal(s, t[1] + t[2] + 3, t[3])>>

AtLeast41(v) == v[1] > 4 \/ (v[1] = 4 /\ v[2] >= 1)

\* C11: constructing a ServerInfo succeeds exactly for the version strings
\* that start with 1-2 digits, '.', 1-2 digits, '.', 1-3 digits and whose
\* (major, minor) is at least (4, 1), and then version_tuple is
\* (major, minor, patch) as integers; every other string raises
\* InterfaceError.
C11_VersionParsed ==
    info.done =>
        IF VersionShapes(info.version) # {} /\ AtLeast41(VersionTriple(info.version))
        THEN info.exc = "" /\ info.version_tuple = VersionTriple(info.version)
        ELSE info.exc = "InterfaceError" /\ info.version_tuple = <<>>

C11_Witness ==
    /\ info.done
    /\ info.exc = ""
    /\ info.version_tuple = <<4, 1, 100>>
    /\ Len(info.version) = MaxVerLen

(***************************************************************************)
(* _validate_tls_versions, when the construction runs it.                  *)
(***************************************************************************)
\* The version tokens a tls_versions value names: the items of a list or a
\* set, the stripped non-empty pieces of a bracketed string.
Requested(v) ==
    IF v.kind \in {"list", "set"} THEN v.items
    ELSE IF Bracketed(v)
    THEN Collect(Split(SubSeq(v.chars, 2, Len(v.chars) - 1)), <<>>, TRUE, FALSE).names
    ELSE <<>>

NoDuplicate(names) == Cardinality(Range(names)) = Len(names)

\* C16: _validate_tls_versions fails for every value that holds a token
\* which is neither a supported nor a deprecated version, whatever other
\* tokens the value holds (values without a repeated token are enough).
C16_UnknownTokenRejected ==
    /\ ctor.validated
    /\ NoDuplicate(Requested(ctor.given))
    /\ \E n \in Range(Requested(ctor.given)) :
           n \notin Range(TLS_VERSIONS) \cup Range(DEPRECATED_TLS_VERSIONS)
    => ctor.exc # ""

\* C17: _validate_tls_versions fails with NotSupportedError and the
\* deprecation message for every value that holds TLSv1 or TLSv1.1,
\* whatever other tokens the value holds (values without a repeated token
\* are enough).
C17_DeprecatedTokenRejected ==
    /\ ctor.validated
    /\ NoDuplicate(Requested(ctor.given))
    /\ \E n \in Range(Requested(ctor.given)) :
           n \in Range(DEPRECATED_TLS_VERSIONS)
    => ctor.exc = "NotSupportedError" /\ ctor.msg = "TLS_VERSION_DEPRECATED_ERROR"

\* C18: when TLSv1.3 is the only version requested and the runtime lacks
\* TLSv1.3, _validate_tls_versions fails with NotSupportedError, for a list
\* and for a bracketed string alike.
C18_OnlyTls13NotSupported ==
    /\ ctor.validated
    /\ ~ctor.tls13
    /\ ctor.given.kind = "list" \/ Bracketed(ctor.given)
    /\ Requested(ctor.given) = <<"TLSv1.3">>
    => ctor.exc = "NotSupportedError"

\* Ascending order of the supported version names.
IsAscending(names) ==
    \A i \in 1..Len(names), j \in 1..Len(names) :
        i < j => \E a \in 1..Len(TLS_VERSIONS), b \in 1..Len(TLS_VERSIONS) :
                     a < b /\ names[i] = TLS_VERSIONS[a] /\ names[j] = TLS_VERSIONS[b]

\* C19: when _validate_tls_versions returns without error, tls_versions is
\* a list without duplicates, sorted ascending, of supported versions only,
\* and it holds every supported version that was requested; a list or a
\* bracketed string that names a version twice raises AttributeError.
C19_ResultSortedSupported ==
    /\ ctor.validated /\ ctor.exc = "" =>
          /\ ctor.tls_versions.kind = "list"
          /\ IsAscending(ctor.tls_versions.items)
          /\ Range(ctor.tls_versions.items) =
                Range(Requested(ctor.given)) \cap Range(TLS_VERSIONS)
          /\ ctor.tls_versions.items # <<>>
    /\ ( /\ ctor.validated
         /\ ctor.given.kind = "list" \/ Bracketed(ctor.given)
         /\ ~NoDuplicate(Requested(ctor.given)) )
       => ctor.exc = "AttributeError" /\ ctor.msg = "DUPLICATED_IN_LIST_ERROR"

C19_Witness ==
    /\ ctor.validated
    /\ ctor.exc = ""
    /\ Requested(ctor.given) = <<"TLSv1.3", "TLSv1.2">>
    /\ Bracketed(ctor.given)
    /\ ctor.tls_versions = PyList(<<"TLSv1.2", "TLSv1.3">>)

(***************************************************************************)
(* _validate_tls_ciphersuites.                                             *)
(***************************************************************************)
\* The OpenSSL name an entry stands for, "" when it is no cipher suite.
OpenSSLName(n) ==
    IF n \in DOMAIN TLSV1_2_CIPHER_SUITES THEN TLSV1_2_CIPHER_SUITES[n]
    ELSE IF n \in DOMAIN TLSV1_3_CIPHER_SUITES THEN TLSV1_3_CIPHER_SUITES[n]
    ELSE IF n \in OPENSSL_CS_NAMES("TLSv1.2") \cup OPENSSL_CS_NAMES("TLSv1.3") THEN n
    ELSE ""

\* Every cipher table is in force: no version is set, or TLSv1.3 is.
AllTablesInForce(v) ==
    \/ v.kind = "None"
    \/ v.kind = "list" /\ "TLSv1.3" \in Range(v.items)
       /\ Range(v.items) \subseteq Range(TLS_VERSIONS)

\* C20: _validate_tls_ciphersuites fails with AttributeError (duplicate in
\* list) whenever two entries of the list translate to the same OpenSSL
\* name: the same IANA name twice, or an IANA name and its OpenSSL alias in
\* either order.
C20_DuplicateTranslatedRejected ==
    /\ ctor.cs_validated
    /\ ctor.cs_given.kind = "list"
    /\ AllTablesInForce(ctor.given)
    /\ \A i \in 1..Len(ctor.cs_given.items) : OpenSSLName(ctor.cs_given.items[i]) # ""
    /\ \E i \in 1..Len(ctor.cs_given.items), j \in 1..Len(ctor.cs_given.items) :
           i < j /\ OpenSSLName(ctor.cs_given.items[i]) = OpenSSLName(ctor.cs_given.items[j])
    => ctor.exc = "AttributeError" /\ ctor.msg = "DUPLICATED_IN_LIST_ERROR"

(***************************************************************************)
(* Authentication.                                                         *)
(***************************************************************************)
\* The bytes of part appear in message, one after the other.
Contains(message, part) ==
    \E i \in 0..(Len(message) - Len(part)) :
        \A j \in 1..Len(part) : message[i + j] = part[j]

\* C14: a SHA-256 password plugin sends the literal password followed by
\* one NUL byte when, and only when, the channel has transport security
\* (ssl_enabled); on an unencrypted channel the message it sends does not
\* contain the raw password.
C14_PasswordOnlyOverTls ==
    auth.pc = "sent" =>
        /\ auth.ssl_enabled <=> auth.sent = auth.password \o <<NUL>>
        /\ ~auth.ssl_enabled /\ auth.password # <<>>
              => ~Contains(auth.sent, auth.password)

C14_Witness ==
    /\ auth.pc = "sent"
    /\ ~auth.ssl_enabled
    /\ auth.public_key
    /\ auth.password = <<"s", "p", "a", "m">>
    /\ auth.sent # <<>>

\* The messages the tests of the SCRAM plugin send in place of the server's.
FieldsOf(keys, good) == [j \in 1..Len(keys) |-> [key |-> keys[j], good |-> good]]
TestBadResponses ==
    {[type |-> "None", fields |-> <<>>], [type |-> "str", fields |-> <<>>],
     [type |-> "str", fields |-> FieldsOf(<<"v">>, FALSE)],
     [type |-> "bytes", fields |-> <<>>], [type |-> "int", fields |-> <<>>]}
TestBadProofs ==
    {[type |-> "None", fields |-> <<>>], [type |-> "str", fields |-> <<>>],
     [type |-> "bytes", fields |-> FieldsOf(<<"">>, TRUE)],
     [type |-> "bytes", fields |-> <<>>], [type |-> "int", fields |-> <<>>]}

FailsWith(message) ==
    auth.pc = "failed" /\ auth.exc = "InterfaceError" /\ auth.errmsg = message

\* C13: in the SCRAM exchange every bad server message ends in
\* InterfaceError, never in success, with a message per stage: a server-first
\* message that is empty, of the wrong type or lacks r= gives "Unexpected
\* server message"; one that lacks i= gives "Incomplete reponse"; one whose
\* nonce does not match gives "Unable to authenticate"; a final message not
\* of the form v=... gives "proof is not well formated"; one whose signature
\* differs from the one computed gives "Unable to proof server identity".
C13_ScramBadMessages ==
    /\ auth.call = "auth_continue" =>
          /\ auth.msg.type # "bytes" \/ auth.msg.fields = <<>> \/ ~HasField(auth.msg, "r")
                => FailsWith("Unexpected server message")
          /\ auth.msg \in TestBadResponses => FailsWith("Unexpected server message")
          /\ auth.msg.type = "bytes" /\ HasField(auth.msg, "r") /\ ~HasField(auth.msg, "i")
                => FailsWith("Incomplete reponse")
          /\ ( /\ auth.msg.type = "bytes"
               /\ HasField(auth.msg, "r") /\ HasField(auth.msg, "s")
               /\ HasField(auth.msg, "i")
               /\ ~Field(auth.msg, "r").good )
                => FailsWith("Unable to authenticate")
    /\ auth.call = "auth_finalize" =>
          /\ auth.msg.type # "bytes" \/ auth.msg.fields = <<>> \/ auth.msg.fields[1].key # "v"
                => FailsWith("proof is not well formated")
          /\ auth.msg \in TestBadProofs => FailsWith("proof is not well formated")
          /\ ( /\ auth.msg.type = "bytes" /\ auth.msg.fields # <<>>
               /\ auth.msg.fields[1].key = "v" /\ ~auth.msg.fields[1].good )
                => FailsWith("Unable to proof server identity")
    /\ auth.pc = "authenticated" =>
          /\ auth.call = "auth_finalize"
          /\ auth.msg.type = "bytes"
          /\ auth.msg.fields[1] = [key |-> "v", good |-> TRUE]

\* The server-first message of the tests whose nonce does not match.
C13_Witness ==
    /\ auth.call = "auth_continue"
    /\ auth.msg = [type |-> "bytes",
                   fields |-> <<[key |-> "r", good |-> FALSE],
                                [key |-> "s", good |-> TRUE],
                                [key |-> "i", good |-> TRUE]>>]
    /\ FailsWith("Unable to authenticate")

\* Python's `a or b` and `a and b` on True, False and None.
PyOr(a, b) == IF a = "True" THEN a ELSE b
PyAnd(a, b) == IF a # "True" THEN a ELSE b
PyBool(b) == IF b THEN "True" ELSE "False"

\* The result the tests expect for a permutation of passwords.
test_user_1f(perm) == PyOr(perm[2], PyAnd(perm[1], PyBool(perm[2] = "None")))
test_user_2f(perm) ==
    PyAnd(perm[3], PyOr(PyAnd(perm[1], PyBool(perm[2] # "False")), perm[2]))
test_user_3f(perm) ==
    PyAnd(perm[3],
          PyAnd(perm[4], PyOr(PyAnd(perm[1], PyBool(perm[2] # "False")), perm[2])))
TestExpected(n, perm) ==
    CASE n = 1 -> test_user_1f(perm) = "True"
      [] n = 2 -> test_user_2f(perm) = "True"
      [] n = 3 -> test_user_3f(perm) = "True"

\* The effective first-factor credential is valid and every further factor
\* the account requires is given and valid.
FactorsValid(n, perm) ==
    /\ (IF perm[2] # "None" THEN perm[2] ELSE perm[1]) = "True"
    /\ n >= 2 => perm[3] = "True"
    /\ n >= 3 => perm[4] = "True"

\* C12: for an account that requires N factors, connect succeeds iff the
\* effective first-factor credential (password1 when given, otherwise
\* password) is valid and every further required factor is given and valid;
\* passwords for factors the account does not require are ignored; in every
\* other case connect fails, and a session exists only after success.  The
\* tests expect the same result for every permutation.
C12_MultiFactorTruthTable ==
    /\ auth.pc = "ok" => FactorsValid(auth.factors, auth.perm)
    /\ auth.pc = "failed" /\ auth.errmsg = "Access denied"
          => ~FactorsValid(auth.factors, auth.perm)
    /\ auth.pc = "failed" /\ auth.switches < MAX_PLUGIN_SWITCHES
          => auth.errmsg = "Access denied"
    /\ auth.session <=> auth.pc = "ok"
    /\ FactorsValid(auth.factors, auth.perm) <=> TestExpected(auth.factors, auth.perm)

C12_Witness ==
    /\ auth.pc = "ok"
    /\ auth.factors = 3
    /\ auth.perm = <<"False", "True", "True", "True">>
    /\ auth.session

\* C15: authentication during connect always terminates: the client follows
\* at most MAX_PLUGIN_SWITCHES plugin switches and then ends in success or
\* failure, whatever switch requests the server sends.
C15_AuthenticationTerminates ==
    /\ [](auth.switches <= MAX_PLUGIN_SWITCHES)
    /\ <>(auth.pc \in {"ok", "failed"})

C15_Witness ==
    /\ auth.pc = "failed"
    /\ auth.switches = MAX_PLUGIN_SWITCHES
    /\ auth.errmsg = "Too many authentication plugin switches"


(***************************************************************************)
(* The cipher tables in force.                                             *)
(***************************************************************************)
\* The position in TLS_VERSIONS of the newest version requested, 0 when no
\* version of TLS_VERSIONS is requested.
NewestIndex(v) ==
    IF v.kind = "None" THEN Len(TLS_VERSIONS)
    ELSE LET found == {IndexOf(x) : x \in Range(v.items)} \cup {0}
         IN  CHOOSE i \in found : \A j \in found : j <= i

\* The IANA and OpenSSL names of the tables of the newest version requested
\* and of the versions before it.
AcceptedNames(v) ==
    UNION {DOMAIN TLS_CIPHER_SUITES(TLS_VERSIONS[i])
           \cup OPENSSL_CS_NAMES(TLS_VERSIONS[i]) : i \in 1..NewestIndex(v)}

\* C21: a cipher-suite name given in a list is accepted by
\* _validate_tls_ciphersuites exactly when, by its IANA or its OpenSSL name,
\* it is in the table of the newest TLS version requested or of an older
\* one; a list with any other name fails with AttributeError.
C21_CipherAcceptedByUnionTable ==
    (/\ ctor.done
     /\ ctor.cs_validated
     /\ ctor.cs_given.kind \in {"list", "set"}
     /\ NewestIndex(ctor.given) > 0)
        => LET names == {n \in Range(ctor.cs_given.items) : n # ""} IN
           /\ (names # {} /\ names \subseteq AcceptedNames(ctor.given))
                  => ctor.exc = ""
           /\ (\E n \in names : n \notin AcceptedNames(ctor.given))
                  => (ctor.exc = "AttributeError"
                      /\ ctor.msg = "not a valid cipher suite")
           /\ \A n \in names :
                  /\ (n \in OPENSSL_CS_NAMES("TLSv1.2")
                      /\ ctor.given = PyList(<<"TLSv1.3">>)
                      /\ names = {n}) => ctor.exc = ""
                  /\ (n \in DOMAIN TLSV1_3_CIPHER_SUITES
                      /\ ctor.given = PyList(<<"TLSv1.2">>))
                         => ctor.exc = "AttributeError"

\* A TLSv1.2 cipher suite is accepted when only TLSv1.3 is requested.
C21_Witness ==
    /\ ctor.done
    /\ ctor.cs_validated
    /\ ctor.given = PyList(<<"TLSv1.3">>)
    /\ ctor.cs_given = PyList(<<"TLS_RSA_WITH_AES_128_GCM_SHA256">>)
    /\ ctor.exc = ""
    /\ ctor.tls_ciphersuites = PyList(<<"AES128-GCM-SHA256", "">>)


\* C22: tls_ciphersuites given as the bracketed string '[A,B]' of valid
\* names is validated to the same result, the same pair of colon-joined
\* strings, as the list [A, B].
C22_BracketedStringAsList ==
    (/\ ctor.done
     /\ ctor.cs_validated
     /\ Bracketed(ctor.cs_given)
     /\ NewestIndex(ctor.given) > 0
     /\ Requested(ctor.cs_given) # <<>>
     /\ Range(Requested(ctor.cs_given)) \subseteq AcceptedNames(ctor.given))
        => LET as_list ==
                   validate_tls_ciphersuites(
                       [NoCtor EXCEPT
                           !.tls_versions = ctor.given, !.given = ctor.given,
                           !.tls_ciphersuites = PyList(Requested(ctor.cs_given)),
                           !.cs_given = ctor.cs_given])
           IN  /\ ctor.exc = as_list.exc
               /\ ctor.tls_ciphersuites = as_list.tls_ciphersuites


(***************************************************************************)
(* The ssl options.                                                        *)
(***************************************************************************)
SslPairMessages ==
    {"ssl_key and ssl_cert need to be both specified, or neither",
     "ssl_key and ssl_cert need to be both set, or neither"}

\* C23: the check on ssl_key and ssl_cert fails exactly when one of the two
\* is set and the other is absent; with both set or both absent it passes,
\* whatever ssl_ca is (ssl_ca given alone included).
C23_SslKeyCertBothOrNeither ==
    ctor.done
        => ((ctor.exc = "AttributeError" /\ ctor.msg \in SslPairMessages)
               <=> (IsSet(ctor.ssl_key) # IsSet(ctor.ssl_cert)))


(***************************************************************************)
(* The connection attributes.                                              *)
(***************************************************************************)
\* Of the options with a check of their own, only those named are given.
OptionFields ==
    {"connection_attrs", "kerberos_auth_mode", "krb_service_principal",
     "allow_local_infile_in_path", "fido_callback", "webauthn_callback",
     "auth_plugin"}
OnlyGiven(fields) ==
    \A f \in OptionFields \ fields : ctor[f] = NoCtor[f]

\* An entry that is to be refused: its name is no default attribute and the
\* name or the value breaks a rule.
BadAttr(e) ==
    /\ ~(e.name.kind = "str" /\ Text2Str(e.name.chars) \in {"_client_name", "_pid"})
    /\ \/ e.name.kind # "str"
       \/ Len(e.name.chars) >= 33
       \/ (e.name.chars # <<>> /\ e.name.chars[1] = "_")
       \/ e.value.kind # "str"
       \/ Len(e.value.chars) >= 1025

\* C24: construction fails with InterfaceError exactly when conn_attrs is
\* not a dict or holds an entry, its name not one of the default attributes,
\* with a name that is not a string, is longer than 32 characters or starts
\* with '_', or with a value that is not a string or is longer than 1024
\* characters.
C24_ConnAttrsLimits ==
    (ctor.done /\ OnlyGiven({"connection_attrs"}))
        => ((ctor.exc = "InterfaceError")
               <=> \/ ctor.connection_attrs.kind # "dict"
                   \/ \E i \in 1..Len(ctor.connection_attrs.items) :
                          BadAttr(ctor.connection_attrs.items[i]))

\* A name of exactly 32 characters with a value of exactly 1024 is accepted.
C24_Witness ==
    /\ ctor.done
    /\ OnlyGiven({"connection_attrs"})
    /\ ctor.exc = ""
    /\ ctor.connection_attrs.kind = "dict"
    /\ \E i \in 1..Len(ctor.connection_attrs.items) :
           /\ Len(ctor.connection_attrs.items[i].name.chars) = 32
           /\ Len(ctor.connection_attrs.items[i].value.chars) = 1024


(***************************************************************************)
(* kerberos_auth_mode and krb_service_principal.                           *)
(***************************************************************************)
IsGssapi(mode) == mode \in {PyStr(<<t>>) : t \in {"gssapi", "GSSAPI", "GssApi"}}
IsSspi(mode) == mode \in {PyStr(<<t>>) : t \in {"sspi", "SSPI"}}

\* C25: construction fails with InterfaceError for every kerberos_auth_mode
\* other than None that is not a string equal, ignoring case, to 'gssapi'
\* or 'sspi' (such as 'abc', ['GSSAPI'] or 0), and for 'sspi' when the
\* platform is not Windows; 'gssapi' in any case is accepted and selects
\* the GSSAPI plugin class.
C25_KerberosAuthModeValidated ==
    (ctor.done /\ OnlyGiven({"kerberos_auth_mode"}))
        => LET mode == ctor.kerberos_auth_mode IN
           /\ (mode # PyNone /\ ~IsGssapi(mode) /\ ~IsSspi(mode))
                  => ctor.exc = "InterfaceError"
           /\ (IsSspi(mode) /\ ctor.os_name # "nt")
                  => ctor.exc = "InterfaceError"
           /\ IsGssapi(mode)
                  => (ctor.exc = ""
                      /\ ctor.auth_plugin_class = "MySQLKerberosAuthPlugin")


\* C26: construction fails with InterfaceError when krb_service_principal
\* is given as a value that is not a string, as the empty string or as a
\* string without '/'; a non-empty string that holds a '/' is accepted.
C26_KrbServicePrincipalValidated ==
    (ctor.done /\ OnlyGiven({"krb_service_principal"}))
        => LET principal == ctor.krb_service_principal IN
           /\ (principal # PyNone
               /\ \/ principal.kind # "str"
                  \/ principal.chars = <<>>
                  \/ \A i \in 1..Len(principal.chars) : principal.chars[i] # "/")
                  => ctor.exc = "InterfaceError"
           /\ (principal.kind = "str"
               /\ \E i \in 1..Len(principal.chars) : principal.chars[i] = "/")
                  => ctor.exc = ""


(***************************************************************************)
(* allow_local_infile_in_path.                                             *)
(***************************************************************************)
\* C27: a path given as allow_local_infile_in_path is accepted exactly when
\* it is an existing directory, a symbolic link that resolves to a
\* directory included; a path that does not exist, one that exists and is
\* not a directory, and a link to something that is not a directory fail
\* with AttributeError.
C27_InfilePathIsDirectory ==
    (/\ ctor.done
     /\ OnlyGiven({"allow_local_infile_in_path"})
     /\ ctor.allow_local_infile_in_path.kind = "str"
     /\ ctor.allow_local_infile_in_path.chars # <<>>)
        => LET path == Text2Str(ctor.allow_local_infile_in_path.chars)
               directory == {"dir", "/dir", "/link_dir"}
           IN  /\ path \in directory => ctor.exc = ""
               /\ path \notin directory => ctor.exc = "AttributeError"


(***************************************************************************)
(* fido_callback and webauthn_callback.                                    *)
(***************************************************************************)
\* The object a callback value stands for: the value, or what its path names.
CallbackObject(callback) ==
    IF callback.kind # "str" THEN callback
    ELSE IF Text2Str(callback.chars) \in DOMAIN Importable
    THEN Importable[Text2Str(callback.chars)]
    ELSE PyNone

\* A string that resolves to no callable, an object that is not callable,
\* or a callable that does not take exactly one parameter.
InvalidCallback(callback) ==
    /\ callback # PyNone
    /\ CallbackObject(callback) # PyFunction(1)

\* C28: construction fails with ProgrammingError when fido_callback or
\* webauthn_callback is a string that resolves to no callable, an object
\* that is not callable, or a callable whose number of parameters is not
\* exactly 1; a callable of one parameter is accepted.
C28_CallbackValidated ==
    (ctor.done /\ OnlyGiven({"fido_callback", "webauthn_callback"}))
        => /\ (InvalidCallback(ctor.fido_callback)
               \/ InvalidCallback(ctor.webauthn_callback))
                  => ctor.exc = "ProgrammingError"
           /\ (~InvalidCallback(ctor.fido_callback)
               /\ ~InvalidCallback(ctor.webauthn_callback))
                  => ctor.exc = ""


(***************************************************************************)
(* get_warnings and raise_on_warnings.                                     *)
(***************************************************************************)
\* On a constructed connection raise_on_warnings = True implies
\* get_warnings = True.
RaiseImpliesGet(o) ==
    (o.done /\ o.exc = "")
        => (o.raise_on_warnings = PyTrue => o.get_warnings = PyTrue)

C30_RaiseOnWarningsSetter ==
    [][(/\ ctor.done
        /\ ctor.exc = ""
        /\ ctor'.call.op = "raise_on_warnings")
          => LET value == ctor'.call.arg IN
             /\ value.kind = "bool"
                   => /\ ctor'.call.exc = ""
                      /\ ctor'.raise_on_warnings = value
                      /\ ctor'.get_warnings = value
             /\ value.kind # "bool"
                   => /\ ctor'.call.exc = "ValueError"
                      /\ ctor'.raise_on_warnings = ctor.raise_on_warnings
                      /\ ctor'.get_warnings = ctor.get_warnings]_vars


(***************************************************************************)
(* The query attributes and the cursor registry.                           *)
(***************************************************************************)
\* C31: query_attrs_append (called directly or through add_attribute of a
\* cursor) with a name already present leaves the list of query attributes
\* unchanged, with a new name it adds that pair at the end and changes no
\* other entry; get_attributes of every cursor returns the one list of the
\* connection.
C31_QueryAttrsAppendKeepsFirst ==
    [][/\ (cnx'.call.op \in {"query_attrs_append", "add_attribute"}
           /\ cnx'.call.exc = "")
          => IF \E i \in 1..Len(cnx.query_attrs) :
                    cnx.query_attrs[i].name = cnx'.call.name
             THEN cnx'.query_attrs = cnx.query_attrs
             ELSE cnx'.query_attrs =
                      cnx.query_attrs \o <<[name |-> cnx'.call.name,
                                            value |-> cnx'.call.value]>>
       /\ cnx'.call.op = "get_attributes"
          => (cnx'.call.result = cnx.query_attrs
              /\ cnx'.query_attrs = cnx.query_attrs)]_vars

\* get_attributes of cursor 2 returns the one attribute of the connection
\* while cursor 1 exists as well.
C31_Witness ==
    /\ cnx.call.op = "get_attributes"
    /\ cnx.call.cursor = 2
    /\ cnx.objects[1] = "held"
    /\ cnx.call.result = <<[name |-> "a", value |-> "x"]>>

\* A cursor that exists and has not been closed is in _cursors, a closed one
\* is not, and the connection exists as long as one of its cursors does.
RegistryHoldsCursors ==
    /\ \A k \in Cursors :
          /\ (cnx.objects[k] \in {"held", "dropped"} /\ k \notin cnx.closed)
                => k \in cnx.cursors
          /\ k \in cnx.closed => k \notin cnx.cursors
    /\ (\E k \in Cursors : cnx.objects[k] \in {"held", "dropped"}) => cnx.alive

\* C33: every cursor is in the registry of its connection from its
\* construction on; a cursor that is closed is no longer in it, a cursor the
\* caller drops without closing it eventually is no longer in it, and the
\* connection exists as long as a cursor of it exists.
C33_RegistryWeak ==
    /\ []RegistryHoldsCursors
    /\ \A k \in Cursors :
          (cnx.objects[k] = "dropped") ~> (k \notin cnx.cursors)

\* The caller has dropped the connection and a cursor that was never
\* closed; the cursor has been collected and has left the registry.
C33_Witness ==
    /\ ~cnx.held
    /\ cnx.objects[1] = "collected"
    /\ 1 \notin cnx.closed
    /\ 1 \notin cnx.cursors
    /\ cnx.objects[2] = "held"
    /\ 2 \in cnx.cursors
    /\ cnx.alive


(***************************************************************************)
(* C32: set_client_flags with an int above 0 replaces the flags; with a    *)
(* list or a tuple it applies the entries in order, a positive entry       *)
(* setting its bits and a negative entry clearing the bits of its absolute *)
(* value, and returns the flags that result; with any other argument, the  *)
(* int 0 and a negative int included, it raises ProgrammingError and       *)
(* leaves the flags as they were.  isset_client_flag(f) is true exactly    *)
(* when the flags AND f is not zero.                                       *)
(***************************************************************************)
RECURSIVE BitsAfter(_, _)
BitsAfter(bits, entries) ==
    IF entries = <<>> THEN bits
    ELSE LET e == Head(entries) IN
         BitsAfter(IF e < 0 THEN bits \ Bits(0 - e) ELSE bits \cup Bits(e),
                   Tail(entries))

IsPositiveInt(v) == v.kind \in {"int", "bool"} /\ v.num > 0

C34_DelayOnlyBetweenAttempts ==
    LET log == rc.log IN
    /\ \A i \in 1..Len(log) :
         /\ log[i] = "connect" => (i > 1 /\ log[i - 1] = "disconnect")
         /\ log[i] = "is_connected" => (i > 1 /\ log[i - 1] = "connect")
         /\ log[i] = "disconnect" => (i = 1 \/ log[i - 1] \in {"connect", "is_connected", "sleep"})
         /\ log[i] = "sleep" =>
              /\ rc.delay > 0
              /\ i > 1
              /\ log[i - 1] \in {"connect", "is_connected"}
    /\ rc.live => log[Len(log)] = "is_connected"
    /\ rc.pc \in {"returned", "raised"} =>
         (log = <<>> \/ log[Len(log)] # "sleep")

(***************************************************************************)
(* C36: reconnect(attempts, delay) ends for every int attempts, whatever   *)
(* connect and is_connected do, after at most max(attempts, 0) attempts;   *)
(* with attempts = 0 it makes no attempt and returns at once.              *)
(***************************************************************************)
C36_AtMostAttempts ==
    /\ rc.counter <= (IF rc.attempts > 0 THEN rc.attempts ELSE 0)
    /\ (rc.pc # "idle" /\ rc.attempts = 0) =>
         (rc.log = <<>> /\ rc.pc \in {"loop", "returned"})


(***************************************************************************)
(* C35: _post_connection issues SET NAMES, then SET autocommit, both       *)
(* always, then the time zone only if one is configured, then the SQL mode *)
(* only if one is configured, then the init command only if one is         *)
(* configured; when one of them fails none of the later ones is issued.    *)
(***************************************************************************)
\* The kinds of the commands _post_connection is to issue for settings c,
\* in order, with the position of each in oks.
PostCommands(c) ==
    <<[kind |-> "SET NAMES '", at |-> 1],
      [kind |-> "SET @@session.autocommit = ", at |-> 2]>>
    \o (IF c.time_zone \notin {PyNone, PyStr(<<>>)}
        THEN <<[kind |-> "SET @@session.time_zone = '", at |-> 3]>>
        ELSE <<>>)
    \o (IF c.sql_mode \notin {PyNone, PyStr(<<>>)}
        THEN <<[kind |-> "SET @@session.sql_mode = '", at |-> 4]>>
        ELSE <<>>)
    \o (IF c.init_command \notin {PyNone, PyStr(<<>>)}
        THEN <<[kind |-> Head(c.init_command.chars), at |-> 5]>>
        ELSE <<>>)

\* The commands up to the first one the server refuses, that one included.
RECURSIVE UntilFailure(_, _)
UntilFailure(commands, oks) ==
    IF commands = <<>> THEN <<>>
    ELSE IF ~oks[Head(commands).at] THEN <<Head(commands)>>
    ELSE <<Head(commands)>> \o UntilFailure(Tail(commands), oks)

C35_PostConnectionOrder ==
    [][cnx'.call.op = "_post_connection" =>
         LET issued == UntilFailure(PostCommands(cnx), cnx'.call.oks) IN
         /\ Len(cnx'.sent) = Len(issued)
         /\ \A i \in 1..Len(issued) : Head(cnx'.sent[i]) = issued[i].kind
         /\ (cnx'.exc # "") = (~cnx'.call.oks[issued[Len(issued)].at])]_vars

\* The time zone command has failed: the SQL mode and the init command,
\* both configured, were not issued.
C35_Witness ==
    /\ cnx.call.op = "_post_connection"
    /\ cnx.exc = "Error"
    /\ Len(cnx.sent) = 3
    /\ cnx.sql_mode = PyStr(<<"ANSI">>)
    /\ cnx.init_command = PyStr(<<"SET @x = 1">>)

(***************************************************************************)
(* C37: for set_autocommit, set_time_zone, set_sql_mode and                *)
(* set_charset_collation: when the command fails, the recorded setting is  *)
(* the same as before the call.                                            *)
(***************************************************************************)
Recorded(c) ==
    <<c.autocommit, c.time_zone, c.sql_mode, c.charset, c.charset_name,
      c.charset_collation>>

C37_FailedSetterKeepsSetting ==
    [][(/\ cnx'.call.op \in {"set_autocommit", "set_time_zone",
                             "set_sql_mode", "set_charset_collation"}
        /\ cnx'.exc # "") => Recorded(cnx') = Recorded(cnx)]_vars


(***************************************************************************)
(* C38: a construction with auth_plugin 'mysql_clear_password' fails with  *)
(* InterfaceError exactly when TLS is disabled in effect, by ssl_disabled  *)
(* or by a unix_socket on POSIX, and is accepted otherwise; with           *)
(* auth_plugin 'authentication_webauthn_client' it always fails with       *)
(* InterfaceError.                                                         *)
(***************************************************************************)
TlsDisabledInEffect(o) ==
    o.ssl_disabled \/ (o.unix_socket \notin {"None", ""} /\ o.os_name = "posix")

C38_ClearPasswordNeedsTls ==
    [][(ctor'.done /\ ~ctor.done /\ OnlyGiven({"auth_plugin"})') =>
         /\ ctor.auth_plugin = "mysql_clear_password" =>
              /\ TlsDisabledInEffect(ctor) => ctor'.exc = "InterfaceError"
              /\ ~TlsDisabledInEffect(ctor) => ctor'.exc = ""
         /\ ctor.auth_plugin = "authentication_webauthn_client" =>
              ctor'.exc = "InterfaceError"]_vars

\* mysql_clear_password was refused for a unix socket on POSIX.
C38_Witness ==
    /\ ctor.done
    /\ ctor.exc = "InterfaceError"
    /\ ctor.auth_plugin = "mysql_clear_password"
    /\ ctor.unix_socket = "/tmp/mysql.sock"
    /\ ctor.os_name = "posix"

(***************************************************************************)
(* C39: after a construction the LOCAL_FILES flag is set exactly when      *)
(* allow_local_infile is true or allow_local_infile_in_path is not empty,  *)
(* and the COMPRESS flag is set whenever compress is true, whatever the    *)
(* client_flags given.                                                     *)
(***************************************************************************)
HasFlag(client_flags, flag) == Bits(flag) \subseteq Bits(client_flags)

C39_FlagsFollowOptions ==
    [][(ctor'.done /\ ~ctor.done /\ ctor'.exc = "") =>
         /\ HasFlag(ctor'.client_flags, LOCAL_FILES)
              = (\/ ctor.allow_local_infile
                 \/ ctor.allow_local_infile_in_path
                      \notin {PyNone, PyStr(<<>>), PyInt(0)})
         /\ ctor.compress => HasFlag(ctor'.client_flags, COMPRESS)]_vars

\* A construction with compress and without a local infile option has
\* ended with COMPRESS set and LOCAL_FILES not set.
C39_Witness ==
    /\ ctor.done
    /\ ctor.exc = ""
    /\ ctor.compress
    /\ ~ctor.allow_local_infile
    /\ ctor.allow_local_infile_in_path = PyNone
    /\ ctor.client_flags = BitOr(COMPRESS, CONNECT_ARGS)

====
